---------------------------- MODULE Spec2Model ----------------------------
(***************************************************************************)
(* Model of lizc2003/audioduration: the duration readers that walk a       *)
(* length-prefixed container (Mp4 of the moov/trak/mdia resolver, WebM).   *)
(*                                                                         *)
(* The state is the caller-owned io.ReadSeeker (its bytes and its cursor)  *)
(* and the (value, error) pair the last call returned.  Every exported     *)
(* function is one action; the functions it calls are operators that       *)
(* take the reader and give back the reader they leave behind.             *)
(***************************************************************************)
EXTENDS Integers, Sequences, FiniteSets, TLC

VARIABLES
    doc,      \* the description the stream's bytes were encoded from
    r,        \* the io.ReadSeeker: bytes, cursor, and what was read so far
    res,      \* the (value, error) pair of the last call; err = "none" before
    pc        \* "ready" before the call, "done" after it

vars == <<doc, r, res, pc>>

(***************************************************************************)
(* Bounds of the inputs.                                                   *)
(***************************************************************************)
MaxTS   == 2     \* mdhd timescales are 0..MaxTS
MaxDur  == 1     \* mdhd durations are 0..MaxDur
MaxSeg  == 2     \* elst segment durations are 1..MaxSeg
MaxMTS  == 2     \* mvhd (movie) timescales are 0..MaxMTS
MoovCut == 8     \* bytes a damaged moov under-declares its size by

(***************************************************************************)
(* A local variable: With([x \in {e} |-> body]) is  x := e  followed by    *)
(* the statements of body, e being computed once (f is named once, so      *)
(* that no way of evaluating With computes it twice).                      *)
(***************************************************************************)
With(f) == CHOOSE v \in {g[CHOOSE x \in DOMAIN g : TRUE] : g \in {f}} : TRUE

(***************************************************************************)
(* Bytes and big-endian integers (encoding/binary.BigEndian).              *)
(***************************************************************************)
RECURSIVE BE(_)
BE(b) == IF Len(b) = 0 THEN 0
         ELSE BE(SubSeq(b, 1, Len(b) - 1)) * 256 + b[Len(b)]

RECURSIVE PutBE(_, _)
PutBE(n, w) == IF w = 0 THEN <<>>
               ELSE PutBE(n \div 256, w - 1) \o <<n % 256>>

Zeros(n) == [i \in 1..n |-> 0]

RECURSIVE GCD(_, _)
GCD(a, b) == IF b = 0 THEN a ELSE GCD(b, a % b)

(***************************************************************************)
(* float64 values.  A finite value is kept as the reduced fraction         *)
(* num/den with its sign; the quotient of two exactly converted integers   *)
(* is the correctly rounded value of that fraction, so two quotients are   *)
(* the same float64 exactly when their reduced fractions agree (for the    *)
(* operands of this model, all far below 2^53).  The other classes are     *)
(* "inf", "nan" and "raw" (a number kept by its bits, see Float64frombits).*)
(***************************************************************************)
FNum(neg, n, d) == LET g == GCD(n, d) IN
    [cls |-> "num", neg |-> neg, num |-> n \div g, den |-> d \div g, bits |-> <<>>]

\* float64(n) / float64(d) for d # 0
Rat(n, d) == FNum(FALSE, n, d)

FZero == FNum(FALSE, 0, 1)

\* Go's  x > 0  on a float64
FPositive(v) == \/ v.cls = "num" /\ ~v.neg /\ v.num > 0
                \/ v.cls = "inf" /\ ~v.neg
                \/ v.cls = "raw" /\ ~v.neg

(***************************************************************************)
(* The reader.  data: the bytes; pos: the cursor; rd: the offsets a read   *)
(* has covered; log: one entry per decoded element header (where it was    *)
(* read, where its content ends, where the enclosing range ends); ops: the *)
(* Read and Seek calls made on it, in order (a query of the position,      *)
(* Seek(0, io.SeekCurrent), is left out).                                  *)
(***************************************************************************)
NewReader(bytes) == [data |-> bytes, pos |-> 0, rd |-> {}, log |-> <<>>, ops |-> <<>>]

\* io.ReadFull(r, buf) with len(buf) = n
ReadFull(rr, n) ==
    LET size == Len(rr.data)
        r1   == [rr EXCEPT !.ops = Append(@, <<"read", n>>)]
    IN
    IF n = 0 THEN [r |-> rr, buf |-> <<>>, err |-> "nil"]
    ELSE IF rr.pos >= size THEN [r |-> r1, buf |-> <<>>, err |-> "EOF"]
    ELSE IF rr.pos + n > size
         THEN [r   |-> [r1 EXCEPT !.pos = size, !.rd = @ \cup (rr.pos .. size - 1)],
               buf |-> SubSeq(rr.data, rr.pos + 1, size),
               err |-> "ErrUnexpectedEOF"]
    ELSE [r   |-> [r1 EXCEPT !.pos = @ + n, !.rd = @ \cup (rr.pos .. rr.pos + n - 1)],
          buf |-> SubSeq(rr.data, rr.pos + 1, rr.pos + n),
          err |-> "nil"]

\* r.Seek(off, io.SeekStart)
SeekStart(rr, off) ==
    IF off < 0 THEN [r |-> [rr EXCEPT !.ops = Append(@, <<"seek", off>>)],
                     err |-> "negative position"]
    ELSE [r |-> [rr EXCEPT !.pos = off, !.ops = Append(@, <<"seek", off>>)], err |-> "nil"]

\* r.Seek(off, io.SeekCurrent)
SeekCurrent(rr, off) == SeekStart(rr, rr.pos + off)

\* the note of a decoded header; no effect on the cursor
Note(rr, scope, at, childEnd, endPos) ==
    [rr EXCEPT !.log = Append(@, [scope |-> scope, at |-> at, hdrEnd |-> rr.pos,
                                  childEnd |-> childEnd, endPos |-> endPos])]

IsEOF(e) == e \in {"EOF", "ErrUnexpectedEOF"}


(***************************************************************************)
(* Box type tags (4 ASCII bytes).                                          *)
(***************************************************************************)
tagMoov == <<109, 111, 111, 118>>
tagMvhd == <<109, 118, 104, 100>>
tagTrak == <<116, 114, 97, 107>>
tagMdia == <<109, 100, 105, 97>>
tagHdlr == <<104, 100, 108, 114>>
tagMdhd == <<109, 100, 104, 100>>
tagEdts == <<101, 100, 116, 115>>
tagElst == <<101, 108, 115, 116>>
tagSoun == <<115, 111, 117, 110>>
tagVide == <<118, 105, 100, 101>>
tagFtyp == <<102, 116, 121, 112>>
tagFree == <<102, 114, 101, 101>>

(***************************************************************************)
(* readAtomHeader, skip                                                    *)
(***************************************************************************)
\* A uint64 of 8 bytes, kept as the int64 of the same bits: 2^64 - n, for n up
\* to 2^24, is -n.  (Below 2^31 the two readings agree; the integers of the
\* model hold nothing in between.)
Int64Bits(b) ==
    IF SubSeq(b, 1, 5) = <<255, 255, 255, 255, 255>> THEN BE(SubSeq(b, 6, 8)) - 16777216
    ELSE BE(b)

\* a < b for uint64 a, kept as above, and a small b
Below(a, b) == a >= 0 /\ a < b

readAtomHeader(rr) ==
    With([a \in {ReadFull(rr, 8)} |->
    IF a.err # "nil"
    THEN [typ |-> <<>>, size |-> 0, headerLen |-> 0, err |-> a.err, r |-> a.r]
    ELSE IF BE(SubSeq(a.buf, 1, 4)) = 1
    THEN With([b \in {ReadFull(a.r, 8)} |->
         IF b.err # "nil"
         THEN [typ |-> <<>>, size |-> 0, headerLen |-> 0, err |-> b.err, r |-> b.r]
         ELSE [typ |-> SubSeq(a.buf, 5, 8), size |-> Int64Bits(b.buf), headerLen |-> 16,
               err |-> "nil", r |-> b.r]])
    ELSE [typ |-> SubSeq(a.buf, 5, 8), size |-> BE(SubSeq(a.buf, 1, 4)),
          headerLen |-> 8, err |-> "nil", r |-> a.r]])

\* skip done by reading n bytes and dropping them
skipByReading(rr, n) ==
    IF n <= 0 THEN [r |-> rr, err |-> "nil"]
    ELSE With([b \in {ReadFull(rr, n)} |-> [r |-> b.r, err |-> b.err]])

skip(rr, n) == IF n <= 0 THEN [r |-> rr, err |-> "nil"] ELSE SeekCurrent(rr, n)

(***************************************************************************)
(* The version-0 / version-1 header shared by mvhd and mdhd: version and   *)
(* flags (4), creation and modification times (8 or 16, skipped), the      *)
(* 32-bit timescale, the 32- or 64-bit duration.                           *)
(***************************************************************************)
parseMvhd(rr) ==
    With([v \in {ReadFull(rr, 4)} |->
    IF v.err # "nil" THEN [ts |-> 0, dur |-> 0, err |-> v.err, r |-> v.r]
    ELSE With([s \in {skip(v.r, IF v.buf[1] = 1 THEN 16 ELSE 8)} |->
    IF s.err # "nil" THEN [ts |-> 0, dur |-> 0, err |-> s.err, r |-> s.r]
    ELSE With([t \in {ReadFull(s.r, 4)} |->
    IF t.err # "nil" THEN [ts |-> 0, dur |-> 0, err |-> t.err, r |-> t.r]
    ELSE With([d \in {ReadFull(t.r, IF v.buf[1] = 1 THEN 8 ELSE 4)} |->
    IF d.err # "nil" THEN [ts |-> 0, dur |-> 0, err |-> d.err, r |-> d.r]
    ELSE [ts |-> BE(t.buf), dur |-> BE(d.buf), err |-> "nil", r |-> d.r]])])])])

(***************************************************************************)
(* readMdiaInfo: the scan of one mdia range for hdlr and mdhd.             *)
(***************************************************************************)
\* case "hdlr": the 12 bytes version/flags, pre_defined, handler_type
mdiaHdlr(rr, content, st) ==
    IF content < 12
    THEN [st |-> st, err |-> "invalid MP4 atom size in mdia hdlr", r |-> rr]
    ELSE With([b \in {ReadFull(rr, 12)} |->
         IF b.err # "nil" THEN [st |-> st, err |-> b.err, r |-> b.r]
         ELSE With([s \in {skip(b.r, content - 12)} |->
              [st  |-> IF SubSeq(b.buf, 9, 12) = tagSoun
                       THEN [st EXCEPT !.isAudio = TRUE] ELSE st,
               err |-> s.err, r |-> s.r]])])

\* mdiaMdhd with the version byte ignored: every mdhd is read as version 0
mdiaMdhdAsVersion0(rr, childEnd, st) ==
    With([v \in {ReadFull(rr, 4)} |->
    IF v.err # "nil" THEN [st |-> st, err |-> v.err, r |-> v.r]
    ELSE With([s \in {skip(v.r, 8)} |->
         With([t \in {ReadFull(s.r, 4)} |->
         With([d \in {ReadFull(t.r, 4)} |->
         With([k \in {SeekStart(d.r, childEnd)} |->
         IF t.err # "nil" \/ d.err # "nil"
         THEN [st |-> st, err |-> "ErrUnexpectedEOF", r |-> d.r]
         ELSE [st |-> [st EXCEPT !.ts = BE(t.buf), !.dur = BE(d.buf), !.hasMdhd = TRUE],
               err |-> k.err, r |-> k.r]])])])])])

\* case "mdhd": version, timescale and duration, then the seek to the box end
mdiaMdhd(rr, childEnd, st) ==
    With([v \in {ReadFull(rr, 4)} |->
    IF v.err # "nil" THEN [st |-> st, err |-> v.err, r |-> v.r]
    ELSE With([s \in {skip(v.r, IF v.buf[1] = 1 THEN 16 ELSE 8)} |->
    IF s.err # "nil" THEN [st |-> st, err |-> s.err, r |-> s.r]
    ELSE With([t \in {ReadFull(s.r, 4)} |->
    IF t.err # "nil" THEN [st |-> st, err |-> t.err, r |-> t.r]
    ELSE With([d \in {ReadFull(t.r, IF v.buf[1] = 1 THEN 8 ELSE 4)} |->
    IF d.err # "nil" THEN [st |-> [st EXCEPT !.ts = BE(t.buf)], err |-> d.err, r |-> d.r]
    ELSE With([k \in {SeekStart(d.r, childEnd)} |->
    IF k.err # "nil"
    THEN [st |-> [st EXCEPT !.ts = BE(t.buf), !.dur = BE(d.buf)],
          err |-> k.err, r |-> k.r]
    ELSE [st |-> [st EXCEPT !.ts = BE(t.buf), !.dur = BE(d.buf), !.hasMdhd = TRUE],
          err |-> "nil", r |-> k.r]])])])])])

\* one child of mdia, its header decoded: dispatch on the type
mdiaChild(rr, h, content, st) ==
    IF h.typ = tagHdlr THEN mdiaHdlr(rr, content, st)
    ELSE IF h.typ = tagMdhd THEN mdiaMdhd(rr, rr.pos + content, st)
    ELSE With([s \in {skip(rr, content)} |-> [st |-> st, err |-> s.err, r |-> s.r]])

RECURSIVE mdiaLoop(_, _, _)
mdiaLoop(rr, endPos, st) ==
    With([h \in {readAtomHeader(rr)} |->
    IF h.err # "nil"
    THEN (IF IsEOF(h.err) THEN [st |-> st, err |-> "nil", r |-> h.r]
          ELSE [st |-> st, err |-> h.err, r |-> h.r])
    ELSE IF Below(h.size, h.headerLen)
    THEN [st |-> st, err |-> "invalid MP4 atom size in mdia", r |-> h.r]
    ELSE With([childEnd \in {h.r.pos + (h.size - h.headerLen)} |->
         With([c \in {mdiaChild(Note(h.r, "mdia", rr.pos, childEnd, endPos),
                        h, h.size - h.headerLen, st)} |->
         IF c.err # "nil" THEN c
         ELSE IF childEnd >= endPos THEN c
         ELSE mdiaLoop(c.r, endPos, c.st)])])])

readMdiaInfo(rr, endPos) ==
    With([m \in {mdiaLoop(rr, endPos,
                  [isAudio |-> FALSE, ts |-> 0, dur |-> 0, hasMdhd |-> FALSE])} |->
    [isAudio |-> m.st.isAudio, ts |-> m.st.ts, dur |-> m.st.dur,
     hasMdhd |-> m.st.hasMdhd, err |-> m.err, r |-> m.r]])

(***************************************************************************)
(* readElstSeconds: the scan of one edts range for elst.                   *)
(***************************************************************************)
\* the loop over the entries with every segment duration added, whatever the
\* rate
RECURSIVE elstEntriesAll(_, _, _, _, _)
elstEntriesAll(rr, version, i, entryCount, totalDur) ==
    IF i >= entryCount THEN [total |-> totalDur, err |-> "nil", r |-> rr]
    ELSE With([seg \in {ReadFull(rr, IF version = 1 THEN 8 ELSE 4)} |->
    IF seg.err # "nil" THEN [total |-> totalDur, err |-> seg.err, r |-> seg.r]
    ELSE With([mt \in {ReadFull(seg.r, IF version = 1 THEN 8 ELSE 4)} |->
    IF mt.err # "nil" THEN [total |-> totalDur, err |-> mt.err, r |-> mt.r]
    ELSE With([rate \in {ReadFull(mt.r, 4)} |->
    IF rate.err # "nil" THEN [total |-> totalDur, err |-> rate.err, r |-> rate.r]
    ELSE elstEntriesAll(rate.r, version, i + 1, entryCount, totalDur + BE(seg.buf))])])])

\* the entry loop  for i := 0; i < entryCount; i++
RECURSIVE elstEntries(_, _, _, _, _)
elstEntries(rr, version, i, entryCount, totalDur) ==
    IF i >= entryCount THEN [total |-> totalDur, err |-> "nil", r |-> rr]
    ELSE With([seg \in {ReadFull(rr, IF version = 1 THEN 8 ELSE 4)} |->
    IF seg.err # "nil" THEN [total |-> totalDur, err |-> seg.err, r |-> seg.r]
    ELSE With([mt \in {ReadFull(seg.r, IF version = 1 THEN 8 ELSE 4)} |->
    IF mt.err # "nil" THEN [total |-> totalDur, err |-> mt.err, r |-> mt.r]
    ELSE With([rate \in {ReadFull(mt.r, 4)} |->
    IF rate.err # "nil" THEN [total |-> totalDur, err |-> rate.err, r |-> rate.r]
    ELSE elstEntries(rate.r, version, i + 1, entryCount,
                     IF BE(SubSeq(rate.buf, 1, 2)) = 1
                     THEN totalDur + BE(seg.buf) ELSE totalDur)])])])

\* case "elst"
edtsElst(rr, childEnd, movieTS) ==
    With([v \in {ReadFull(rr, 4)} |->
    IF v.err # "nil" THEN [val |-> FZero, ok |-> FALSE, err |-> v.err, r |-> v.r]
    ELSE With([n \in {ReadFull(v.r, 4)} |->
    IF n.err # "nil" THEN [val |-> FZero, ok |-> FALSE, err |-> n.err, r |-> n.r]
    ELSE With([e \in {elstEntries(n.r, v.buf[1], 0, BE(n.buf), 0)} |->
    IF e.err # "nil" THEN [val |-> FZero, ok |-> FALSE, err |-> e.err, r |-> e.r]
    ELSE With([k \in {SeekStart(e.r, childEnd)} |->
    IF k.err # "nil" THEN [val |-> FZero, ok |-> FALSE, err |-> k.err, r |-> k.r]
    ELSE IF e.total > 0
    THEN [val |-> Rat(e.total, movieTS), ok |-> TRUE, err |-> "nil", r |-> k.r]
    ELSE [val |-> FZero, ok |-> FALSE, err |-> "nil", r |-> k.r]])])])])

RECURSIVE readElstSeconds(_, _, _)
readElstSeconds(rr, endPos, movieTS) ==
    With([h \in {readAtomHeader(rr)} |->
    IF h.err # "nil" THEN [val |-> FZero, ok |-> FALSE, err |-> h.err, r |-> h.r]
    ELSE IF Below(h.size, h.headerLen)
    THEN [val |-> FZero, ok |-> FALSE, err |-> "invalid MP4 atom size in edts", r |-> h.r]
    ELSE With([childEnd \in {h.r.pos + (h.size - h.headerLen)} |->
    With([r0 \in {Note(h.r, "edts", rr.pos, childEnd, endPos)} |->
    IF h.typ = tagElst THEN edtsElst(r0, childEnd, movieTS)
    ELSE With([s \in {skip(r0, h.size - h.headerLen)} |->
    IF s.err # "nil" THEN [val |-> FZero, ok |-> FALSE, err |-> s.err, r |-> s.r]
    ELSE IF childEnd >= endPos
    THEN [val |-> FZero, ok |-> FALSE, err |-> "nil", r |-> s.r]
    ELSE readElstSeconds(s.r, endPos, movieTS)])])])])

(***************************************************************************)
(* readAudioDurationInTrak: the scan of one trak range, then the choice    *)
(* between the edit-list seconds and the mdhd quotient.                    *)
(***************************************************************************)
\* case "mdia"
trakMdia(rr, childEnd, st) ==
    With([m \in {readMdiaInfo(rr, childEnd)} |->
    IF m.err # "nil" THEN [st |-> st, err |-> m.err, r |-> m.r]
    ELSE IF m.hasMdhd /\ m.isAudio /\ m.ts # 0
    THEN [st |-> [st EXCEPT !.haveMdhd = TRUE, !.dur = Rat(m.dur, m.ts)],
          err |-> "nil", r |-> m.r]
    ELSE [st |-> st, err |-> "nil", r |-> m.r]])

\* case "edts" without the test of movieTS: the edit list is always parsed
trakEdtsAlways(rr, content, childEnd, movieTS, st) ==
    With([e \in {readElstSeconds(rr, childEnd, movieTS)} |->
    IF e.err # "nil" THEN [st |-> st, err |-> e.err, r |-> e.r]
    ELSE IF e.ok
    THEN [st |-> [st EXCEPT !.haveElst = TRUE, !.elstSecs = e.val],
          err |-> "nil", r |-> e.r]
    ELSE [st |-> st, err |-> "nil", r |-> e.r]])

\* case "edts"
trakEdts(rr, content, childEnd, movieTS, st) ==
    IF movieTS # 0
    THEN With([e \in {readElstSeconds(rr, childEnd, movieTS)} |->
         IF e.err # "nil" THEN [st |-> st, err |-> e.err, r |-> e.r]
         ELSE IF e.ok
         THEN [st |-> [st EXCEPT !.haveElst = TRUE, !.elstSecs = e.val],
               err |-> "nil", r |-> e.r]
         ELSE [st |-> st, err |-> "nil", r |-> e.r]])
    ELSE With([s \in {skip(rr, content)} |-> [st |-> st, err |-> s.err, r |-> s.r]])

\* one child of trak, its header decoded: dispatch on the type
trakChild(rr, h, content, movieTS, st) ==
    IF h.typ = tagMdia THEN trakMdia(rr, rr.pos + content, st)
    ELSE IF h.typ = tagEdts THEN trakEdts(rr, content, rr.pos + content, movieTS, st)
    ELSE With([s \in {skip(rr, content)} |-> [st |-> st, err |-> s.err, r |-> s.r]])

RECURSIVE trakLoop(_, _, _, _)
trakLoop(rr, endPos, movieTS, st) ==
    With([h \in {readAtomHeader(rr)} |->
    IF h.err # "nil"
    THEN (IF IsEOF(h.err) THEN [st |-> st, err |-> "nil", r |-> h.r]
          ELSE [st |-> st, err |-> h.err, r |-> h.r])
    ELSE IF Below(h.size, h.headerLen)
    THEN [st |-> st, err |-> "invalid MP4 atom size in trak", r |-> h.r]
    ELSE With([childEnd \in {h.r.pos + (h.size - h.headerLen)} |->
         With([c \in {trakChild(Note(h.r, "trak", rr.pos, childEnd, endPos),
                        h, h.size - h.headerLen, movieTS, st)} |->
         IF c.err # "nil" THEN c
         ELSE IF childEnd >= endPos THEN c
         ELSE trakLoop(c.r, endPos, movieTS, c.st)])])])

\* trakResult with the two tests in the other order: mdhd before the edit list
trakResultMdhdFirst(rr, endPos, st) ==
    IF st.haveMdhd
    THEN [val |-> st.dur, ok |-> TRUE, err |-> "nil", r |-> rr]
    ELSE IF st.haveElst /\ FPositive(st.elstSecs)
    THEN [val |-> st.elstSecs, ok |-> TRUE, err |-> "nil", r |-> rr]
    ELSE With([k \in {SeekStart(rr, endPos)} |->
         [val |-> FZero, ok |-> FALSE, err |-> k.err, r |-> k.r]])

\* the statements after the loop
trakResult(rr, endPos, st) ==
    IF st.haveElst /\ FPositive(st.elstSecs)
    THEN [val |-> st.elstSecs, ok |-> TRUE, err |-> "nil", r |-> rr]
    ELSE IF st.haveMdhd
    THEN [val |-> st.dur, ok |-> TRUE, err |-> "nil", r |-> rr]
    ELSE With([k \in {SeekStart(rr, endPos)} |->
         [val |-> FZero, ok |-> FALSE, err |-> k.err, r |-> k.r]])

readAudioDurationInTrak(rr, endPos, movieTS) ==
    With([t \in {trakLoop(rr, endPos, movieTS,
                  [dur |-> FZero, elstSecs |-> FZero,
                   haveMdhd |-> FALSE, haveElst |-> FALSE])} |->
    IF t.err # "nil" THEN [val |-> FZero, ok |-> FALSE, err |-> t.err, r |-> t.r]
    ELSE trakResult(t.r, endPos, t.st)])

(***************************************************************************)
(* Mp4: the top-level scan, and inside moov the scan for mvhd and trak.    *)
(***************************************************************************)
\* one child of moov, its header decoded; kind "return" leaves Mp4, "seek"
\* goes on to the seek to the child's end with the movie timescale ts
moovChild(rr, h, childEnd, movieTimeScale) ==
    IF h.typ = tagMvhd
    THEN With([m \in {parseMvhd(rr)} |->
         IF m.err # "nil"
         THEN [kind |-> "return", val |-> FZero, err |-> m.err, r |-> m.r, ts |-> 0]
         ELSE [kind |-> "seek", val |-> FZero, err |-> "nil", r |-> m.r, ts |-> m.ts]])
    ELSE IF h.typ = tagTrak
    THEN With([t \in {readAudioDurationInTrak(rr, childEnd, movieTimeScale)} |->
         IF t.err # "nil"
         THEN [kind |-> "return", val |-> FZero, err |-> t.err, r |-> t.r, ts |-> 0]
         ELSE IF t.ok
         THEN [kind |-> "return", val |-> t.val, err |-> "nil", r |-> t.r, ts |-> 0]
         ELSE [kind |-> "seek", val |-> FZero, err |-> "nil", r |-> t.r,
               ts |-> movieTimeScale]])
    ELSE [kind |-> "seek", val |-> FZero, err |-> "nil", r |-> rr, ts |-> movieTimeScale]

\* the inner  for  of case "moov"; kind "return" leaves Mp4, "break" leaves the loop
RECURSIVE moovLoop(_, _, _)
moovLoop(rr, moovEnd, movieTimeScale) ==
    With([h \in {readAtomHeader(rr)} |->
    IF h.err # "nil" THEN [kind |-> "return", val |-> FZero, err |-> h.err, r |-> h.r]
    ELSE IF Below(h.size, h.headerLen)
    THEN [kind |-> "return", val |-> FZero, err |-> "invalid MP4 child atom size", r |-> h.r]
    ELSE With([childEnd \in {h.r.pos + (h.size - h.headerLen)} |->
    With([c \in {moovChild(Note(h.r, "moov", rr.pos, childEnd, moovEnd),
                   h, childEnd, movieTimeScale)} |->
    IF c.kind = "return"
    THEN [kind |-> "return", val |-> c.val, err |-> c.err, r |-> c.r]
    ELSE With([k \in {SeekStart(c.r, childEnd)} |->
    IF k.err # "nil" THEN [kind |-> "return", val |-> FZero, err |-> k.err, r |-> k.r]
    ELSE IF childEnd >= moovEnd
    THEN [kind |-> "break", val |-> FZero, err |-> "nil", r |-> k.r]
    ELSE moovLoop(k.r, moovEnd, c.ts)])])])])

RECURSIVE Mp4(_)
Mp4(rr) ==
    With([h \in {readAtomHeader(rr)} |->
    IF h.err # "nil"
    THEN (IF IsEOF(h.err) THEN [val |-> FZero, err |-> "audio mdhd not found", r |-> h.r]
          ELSE [val |-> FZero, err |-> h.err, r |-> h.r])
    ELSE IF Below(h.size, h.headerLen)
    THEN [val |-> FZero, err |-> "invalid MP4 atom size", r |-> h.r]
    ELSE With([r0 \in {Note(h.r, "file", rr.pos, h.r.pos + (h.size - h.headerLen), -1)} |->
    IF h.typ = tagMoov
    THEN With([m \in {moovLoop(r0, r0.pos + (h.size - h.headerLen), 0)} |->
         IF m.kind = "return" THEN [val |-> m.val, err |-> m.err, r |-> m.r]
         ELSE Mp4(m.r)])
    ELSE With([s \in {skip(r0, h.size - h.headerLen)} |->
         IF s.err # "nil" THEN [val |-> FZero, err |-> s.err, r |-> s.r]
         ELSE Mp4(s.r)])])])

(***************************************************************************)
(* WebM: EBML element IDs.  ebmlUnknownSize is 1<<63 - 1 in the source;    *)
(* the integers of this model end at 2^31 - 1, which stands for it (the    *)
(* sizes readEbmlSize decodes here stay far below either value).           *)
(***************************************************************************)
ebmlIdEBML      == 440786851     \* 0x1A45DFA3
ebmlIdSegment   == 408125543     \* 0x18538067
ebmlIdInfo      == 357149030     \* 0x1549A966
ebmlIdDur       == 17545         \* 0x4489
ebmlUnknownSize == 2147483647

Pow2(n) == 2 ^ n

\* the loop  for i := 0; i < 8; i++  over the bits of b from the top
RECURSIVE leadingOneFrom(_, _)
leadingOneFrom(b, i) ==
    IF i >= 8 THEN 0
    ELSE IF (b \div Pow2(7 - i)) % 2 # 0 THEN i + 1
    ELSE leadingOneFrom(b, i + 1)

leadingOnePos(b) == leadingOneFrom(b, 0)

\* a header read that met the end of the stream after its first byte
Cut(rr, at) == Note(rr, "cut", at, -1, -1)

\* The uint64 built by  val = (val << 8) | uint64(b)  over at most 8 bytes, in
\* three parts of 16, 24 and 24 bits (the integers of the model end at
\* 2^31 - 1).
Limbs(bytes) ==
    With([b \in {Zeros(8 - Len(bytes)) \o bytes} |->
    [hi |-> BE(SubSeq(b, 1, 2)), mid |-> BE(SubSeq(b, 3, 5)), lo |-> BE(SubSeq(b, 6, 8))]])

\* the same uint64 as a number when it is below 2^31, else in its parts
ShiftOr(bytes) ==
    With([u \in {Limbs(bytes)} |->
    IF u.hi = 0 /\ u.mid < 128 THEN u.mid * 16777216 + u.lo ELSE [wide |-> u]])

NoLimbs == [hi |-> 0, mid |-> 0, lo |-> 0]

readEbmlId(rr) ==
    With([first \in {ReadFull(rr, 1)} |->
    IF first.err # "nil" THEN [val |-> 0, u64 |-> NoLimbs, len |-> 0, err |-> first.err, r |-> first.r]
    ELSE With([l \in {leadingOnePos(first.buf[1])} |->
    IF l = 0
    THEN [val |-> 0, u64 |-> NoLimbs, len |-> 0, err |-> "invalid EBML ID leading bits", r |-> first.r]
    ELSE With([buf \in {ReadFull(first.r, l - 1)} |->
    IF buf.err # "nil"
    THEN [val |-> 0, u64 |-> NoLimbs, len |-> 0, err |-> buf.err, r |-> Cut(buf.r, rr.pos)]
    ELSE [val |-> ShiftOr(first.buf \o buf.buf), u64 |-> Limbs(first.buf \o buf.buf),
          len |-> l, err |-> "nil", r |-> buf.r]])])])

\* readEbmlSize with the mask 0xFF >> (sizeLen + 1): the bit below the marker
\* is cleared as well
readEbmlSizeWideMask(rr) ==
    With([first \in {ReadFull(rr, 1)} |->
    IF first.err # "nil"
    THEN [val |-> 0, u64 |-> NoLimbs, len |-> 0, err |-> first.err, r |-> Cut(first.r, rr.pos)]
    ELSE With([l \in {leadingOnePos(first.buf[1])} |->
    IF l = 0
    THEN [val |-> 0, u64 |-> NoLimbs, len |-> 0, err |-> "invalid EBML size leading bits", r |-> first.r]
    ELSE With([buf \in {ReadFull(first.r, l - 1)} |->
    IF buf.err # "nil"
    THEN [val |-> 0, u64 |-> NoLimbs, len |-> 0, err |-> buf.err, r |-> Cut(buf.r, rr.pos)]
    ELSE [val |-> ShiftOr(<<first.buf[1] % ((255 \div Pow2(l + 1)) + 1)>> \o buf.buf),
          u64 |-> Limbs(<<first.buf[1] % ((255 \div Pow2(l + 1)) + 1)>> \o buf.buf),
          len |-> l, err |-> "nil", r |-> buf.r]])])])

readEbmlSize(rr) ==
    With([first \in {ReadFull(rr, 1)} |->
    IF first.err # "nil"
    THEN [val |-> 0, u64 |-> NoLimbs, len |-> 0, err |-> first.err, r |-> Cut(first.r, rr.pos)]
    ELSE With([l \in {leadingOnePos(first.buf[1])} |->
    IF l = 0
    THEN [val |-> 0, u64 |-> NoLimbs, len |-> 0, err |-> "invalid EBML size leading bits", r |-> first.r]
    ELSE With([buf \in {ReadFull(first.r, l - 1)} |->
    IF buf.err # "nil"
    THEN [val |-> 0, u64 |-> NoLimbs, len |-> 0, err |-> buf.err, r |-> Cut(buf.r, rr.pos)]
    ELSE [val |-> ShiftOr(<<first.buf[1] % ((255 \div Pow2(l)) + 1)>> \o buf.buf),
          u64 |-> Limbs(<<first.buf[1] % ((255 \div Pow2(l)) + 1)>> \o buf.buf),
          len |-> l, err |-> "nil", r |-> buf.r]])])])

skipBytes(rr, n) == IF n <= 0 THEN [r |-> rr, err |-> "nil"] ELSE SeekCurrent(rr, n)

(***************************************************************************)
(* math.Float32frombits and math.Float64frombits (the float32 widened to   *)
(* float64).  A normal number whose fraction fits the integers of the      *)
(* model is kept as the reduced fraction; any other normal or subnormal    *)
(* number keeps its bits (class "raw").  bits is empty for a fraction.     *)
(***************************************************************************)
\* (1 + frac / 2^fw) * 2^(e - bias), for the biased exponent e
FDecode(neg, e, frac, fw, emax, bias, exact, bits) ==
    IF e = emax
    THEN (IF frac = 0 /\ exact
          THEN [cls |-> "inf", neg |-> neg, num |-> 0, den |-> 0, bits |-> <<>>]
          ELSE [cls |-> "nan", neg |-> FALSE, num |-> 0, den |-> 0, bits |-> <<>>])
    ELSE IF e = 0 /\ frac = 0 /\ exact THEN FNum(neg, 0, 1)
    ELSE LET x == e - bias - fw IN
         IF e = 0 \/ ~exact \/ x > 6 \/ x < -30
         THEN [cls |-> "raw", neg |-> neg, num |-> 0, den |-> 0, bits |-> bits]
         ELSE IF x >= 0 THEN FNum(neg, (Pow2(fw) + frac) * Pow2(x), 1)
         ELSE FNum(neg, Pow2(fw) + frac, Pow2(-x))

Float32frombits(b) ==
    FDecode(b[1] >= 128, (b[1] % 128) * 2 + b[2] \div 128,
            (b[2] % 128) * 65536 + b[3] * 256 + b[4], 23, 255, 127, TRUE, b)

Float64frombits(b) ==
    FDecode(b[1] >= 128, (b[1] % 128) * 16 + b[2] \div 16,
            (b[2] % 16) * 65536 + b[3] * 256 + b[4], 20, 2047, 1023,
            SubSeq(b, 5, 8) = Zeros(4), b)

(***************************************************************************)
(* readDurationInInfo: the scan of one Info range for the Duration leaf.   *)
(***************************************************************************)
\* infoDuration with an error for a size other than 4 or 8
infoDurationStrict(rr, size) ==
    IF size = 4 \/ size = 8
    THEN With([b \in {ReadFull(rr, size)} |->
         IF b.err # "nil" THEN [kind |-> "return", val |-> FZero, err |-> b.err, r |-> b.r]
         ELSE [kind |-> "return",
               val  |-> IF size = 4 THEN Float32frombits(b.buf) ELSE Float64frombits(b.buf),
               err  |-> "nil", r |-> b.r]])
    ELSE [kind |-> "return", val |-> FZero, err |-> "unsupported duration size", r |-> rr]

\* the branch  if id == ebmlIdDur : kind "return" leaves the function,
\* "continue" goes on with the next element
infoDuration(rr, size) ==
    IF size = 4 \/ size = 8
    THEN With([b \in {ReadFull(rr, size)} |->
         IF b.err # "nil" THEN [kind |-> "return", val |-> FZero, err |-> b.err, r |-> b.r]
         ELSE [kind |-> "return",
               val  |-> IF size = 4 THEN Float32frombits(b.buf) ELSE Float64frombits(b.buf),
               err  |-> "nil", r |-> b.r]])
    ELSE \* Unsupported float size; skip
         With([s \in {skipBytes(rr, size)} |->
         IF s.err # "nil" THEN [kind |-> "return", val |-> FZero, err |-> s.err, r |-> s.r]
         ELSE [kind |-> "continue", val |-> FZero, err |-> "nil", r |-> s.r]])

\* one element of Info, its ID and size decoded
infoElement(rr, id, size) ==
    IF id = ebmlIdDur THEN infoDuration(rr, size)
    ELSE With([s \in {skipBytes(rr, size)} |->
         IF s.err # "nil" THEN [kind |-> "return", val |-> FZero, err |-> s.err, r |-> s.r]
         ELSE [kind |-> "continue", val |-> FZero, err |-> "nil", r |-> s.r]])

RECURSIVE infoLoop(_, _, _)
infoLoop(rr, infoStart, infoSize) ==
    IF rr.pos - infoStart >= infoSize THEN [val |-> FZero, err |-> "nil", r |-> rr]
    ELSE With([id \in {readEbmlId(rr)} |->
    IF id.err # "nil"
    THEN (IF id.err = "EOF" THEN [val |-> FZero, err |-> "nil", r |-> id.r]
          ELSE [val |-> FZero, err |-> id.err, r |-> id.r])
    ELSE With([size \in {readEbmlSize(id.r)} |->
    IF size.err # "nil" THEN [val |-> FZero, err |-> size.err, r |-> size.r]
    ELSE With([c \in {infoElement(Note(size.r, "info", rr.pos, size.r.pos + size.val,
                               infoStart + infoSize), id.val, size.val)} |->
    IF c.kind = "return" THEN [val |-> c.val, err |-> c.err, r |-> c.r]
    ELSE infoLoop(c.r, infoStart, infoSize)])])])

readDurationInInfo(rr, infoSize) == infoLoop(rr, rr.pos, infoSize)

(***************************************************************************)
(* readDurationInSegment: the scan of one Segment range for Info.          *)
(***************************************************************************)
\* segmentInfo without the test  d > 0 : whatever the Info scan gave is returned
segmentInfoNoTest(rr, size) ==
    With([d \in {readDurationInInfo(rr, size)} |->
    [kind |-> "return", val |-> d.val, err |-> d.err, r |-> d.r]])

\* case ebmlIdInfo: kind "return" leaves the function, "continue" goes on
segmentInfo(rr, size) ==
    With([d \in {readDurationInInfo(rr, size)} |->
    IF d.err # "nil" THEN [kind |-> "return", val |-> FZero, err |-> d.err, r |-> d.r]
    ELSE IF FPositive(d.val)
    THEN [kind |-> "return", val |-> d.val, err |-> "nil", r |-> d.r]
    ELSE With([k \in {SeekStart(d.r, rr.pos + size)} |->
    IF k.err # "nil" THEN [kind |-> "return", val |-> FZero, err |-> k.err, r |-> k.r]
    ELSE [kind |-> "continue", val |-> FZero, err |-> "nil", r |-> k.r]])])

\* one element of Segment, its ID and size decoded
segmentElement(rr, id, size) ==
    IF id = ebmlIdInfo THEN segmentInfo(rr, size)
    ELSE With([s \in {skipBytes(rr, size)} |->
         IF s.err # "nil" THEN [kind |-> "return", val |-> FZero, err |-> s.err, r |-> s.r]
         ELSE [kind |-> "continue", val |-> FZero, err |-> "nil", r |-> s.r]])

RECURSIVE segmentLoop(_, _, _)
segmentLoop(rr, segStart, limit) ==
    IF limit >= 0 /\ rr.pos - segStart >= limit
    THEN [val |-> FZero, err |-> "nil", r |-> rr]
    ELSE With([id \in {readEbmlId(rr)} |->
    IF id.err # "nil"
    THEN (IF id.err = "EOF" THEN [val |-> FZero, err |-> "nil", r |-> id.r]
          ELSE [val |-> FZero, err |-> id.err, r |-> id.r])
    ELSE With([size \in {readEbmlSize(id.r)} |->
    IF size.err # "nil" THEN [val |-> FZero, err |-> size.err, r |-> size.r]
    ELSE With([c \in {segmentElement(Note(size.r, "segment", rr.pos, size.r.pos + size.val,
                                  IF limit >= 0 THEN segStart + limit ELSE -1),
                             id.val, size.val)} |->
    IF c.kind = "return" THEN [val |-> c.val, err |-> c.err, r |-> c.r]
    ELSE segmentLoop(c.r, segStart, limit)])])])

readDurationInSegment(rr, segSize) ==
    segmentLoop(rr, rr.pos, IF segSize # ebmlUnknownSize THEN segSize ELSE -1)

(***************************************************************************)
(* WebM: the seek to the start, then the top-level scan for Segment.       *)
(***************************************************************************)
\* case ebmlIdSegment: kind "return" leaves WebM, "continue" goes on
webmSegment(rr, size) ==
    With([d \in {readDurationInSegment(rr, size)} |->
    IF d.err # "nil" THEN [kind |-> "return", val |-> FZero, err |-> d.err, r |-> d.r]
    ELSE IF FPositive(d.val)
    THEN [kind |-> "return", val |-> d.val, err |-> "nil", r |-> d.r]
    ELSE IF size # ebmlUnknownSize
    THEN With([k \in {SeekStart(d.r, rr.pos + size)} |->
         IF k.err # "nil" THEN [kind |-> "return", val |-> FZero, err |-> k.err, r |-> k.r]
         ELSE [kind |-> "continue", val |-> FZero, err |-> "nil", r |-> k.r]])
    ELSE [kind |-> "continue", val |-> FZero, err |-> "nil", r |-> d.r]])

\* one top-level element, its ID and size decoded
webmElement(rr, id, size) ==
    IF id = ebmlIdSegment THEN webmSegment(rr, size)
    ELSE With([s \in {skipBytes(rr, size)} |->
         IF s.err # "nil" THEN [kind |-> "return", val |-> FZero, err |-> s.err, r |-> s.r]
         ELSE [kind |-> "continue", val |-> FZero, err |-> "nil", r |-> s.r]])

RECURSIVE webmLoop(_)
webmLoop(rr) ==
    With([id \in {readEbmlId(rr)} |->
    IF id.err # "nil"
    THEN (IF id.err = "EOF"
          THEN [val |-> FZero, err |-> "webm duration not found", r |-> id.r]
          ELSE [val |-> FZero, err |-> id.err, r |-> id.r])
    ELSE With([size \in {readEbmlSize(id.r)} |->
    IF size.err # "nil" THEN [val |-> FZero, err |-> size.err, r |-> size.r]
    ELSE With([c \in {webmElement(Note(size.r, "file", rr.pos, size.r.pos + size.val, -1),
                          id.val, size.val)} |->
    IF c.kind = "return" THEN [val |-> c.val, err |-> c.err, r |-> c.r]
    ELSE webmLoop(c.r)])])])

WebM(rr) ==
    With([k \in {SeekStart(rr, 0)} |->
    IF k.err # "nil" THEN [val |-> FZero, err |-> k.err, r |-> k.r]
    ELSE webmLoop(k.r)])

(***************************************************************************)
(* MP4 inputs: the bytes of a stream described by doc.                     *)
(***************************************************************************)
\* a box with a 32-bit size, or (wide) with size32 = 1 and a 64-bit size
Box(tag, content, wide) ==
    IF wide THEN PutBE(1, 4) \o tag \o PutBE(16 + Len(content), 8) \o content
    ELSE PutBE(8 + Len(content), 4) \o tag \o content

\* creation or modification time: w bytes, not zero
Stamp(w) == Zeros(w - 1) \o <<9>>

\* version/flags, two times, timescale, duration, 4 more bytes
EncTimes(ver, ts, dur) ==
    IF ver = 1
    THEN <<1, 0, 0, 0>> \o Stamp(8) \o Stamp(8) \o PutBE(ts, 4) \o PutBE(dur, 8) \o Zeros(4)
    ELSE <<0, 0, 0, 0>> \o Stamp(4) \o Stamp(4) \o PutBE(ts, 4) \o PutBE(dur, 4) \o Zeros(4)

EncHdlr(handler) ==
    Box(tagHdlr, Zeros(8) \o (IF handler = "soun" THEN tagSoun ELSE tagVide) \o Zeros(4),
        FALSE)

RECURSIVE EncEntries(_, _)
EncEntries(ver, segs) ==
    IF segs = <<>> THEN <<>>
    ELSE LET w == IF ver = 1 THEN 8 ELSE 4
             e == Head(segs)
         IN PutBE(e.dur, w) \o PutBE(0, w) \o PutBE(e.rate, 2) \o <<0, 0>>
            \o EncEntries(ver, Tail(segs))

EncElst(ver, segs) ==
    Box(tagElst, <<ver, 0, 0, 0>> \o PutBE(Len(segs), 4) \o EncEntries(ver, segs), FALSE)

EncMdia(t) ==
    LET hdlr == EncHdlr(t.handler)
        mdhd == Box(tagMdhd, EncTimes(t.ver, t.ts, t.dur), t.ver = 1)
    IN Box(tagMdia, IF t.ver = 1 THEN mdhd \o hdlr ELSE hdlr \o mdhd, FALSE)

EncTrak(t) ==
    LET edts == Box(tagEdts, EncElst(t.ver, t.segs), FALSE)
        mdia == EncMdia(t)
    IN Box(tagTrak,
           Box(tagFree, Zeros(4), FALSE)
           \o (CASE t.edts = "none"   -> mdia
                 [] t.edts = "before" -> edts \o mdia
                 [] t.edts = "after"  -> mdia \o edts),
           FALSE)

\* the children of moov: the traks, with mvhd before trak number at + 1
RECURSIVE EncMoovKids(_, _, _)
EncMoovKids(traks, at, mvhd) ==
    IF traks = <<>> THEN (IF at = 0 THEN mvhd ELSE <<>>)
    ELSE (IF at = 0 THEN mvhd ELSE <<>>)
         \o EncTrak(Head(traks)) \o EncMoovKids(Tail(traks), at - 1, mvhd)

EncMp4(d) ==
    LET mvhd == Box(tagMvhd, EncTimes(d.mver, d.mts, 5), FALSE)
        kids == EncMoovKids(d.traks, d.mvhdAt, mvhd)
    IN Box(tagFtyp, Zeros(4), FALSE)
       \o PutBE(8 + Len(kids) - d.cut, 4) \o tagMoov \o kids

N(s) == [dur |-> s, rate |-> 1]

\* edit lists: one normal-rate entry; a normal-rate entry and one at rate 2;
\* one entry at rate 0; two normal-rate entries
ElstShapes ==
    {<<N(s)>> : s \in 1..MaxSeg}
    \cup {<<N(1), [dur |-> MaxSeg, rate |-> 2]>>, <<[dur |-> 1, rate |-> 0]>>,
          <<N(1), N(MaxSeg)>>}

TrakShapes ==
    [handler : {"soun", "vide"}, ver : {0, 1}, ts : 0..MaxTS, dur : 0..MaxDur,
     edts : {"none"}, segs : {<<>>}]
    \cup [handler : {"soun", "vide"}, ver : {0, 1}, ts : 0..MaxTS, dur : 0..MaxDur,
          edts : {"before", "after"}, segs : ElstShapes]

\* the track that may follow: no edit list, version 0
LastTraks ==
    {[handler |-> h, ver |-> 0, ts |-> 1, dur |-> MaxDur, edts |-> "none", segs |-> <<>>] :
        h \in {"soun", "vide"}}
    \cup {[handler |-> "soun", ver |-> 0, ts |-> MaxTS, dur |-> d, edts |-> "none",
           segs |-> <<>>] : d \in {0, 1}}

TrakLists == {<<t>> : t \in TrakShapes}
             \cup {<<t, u>> : t \in TrakShapes, u \in LastTraks}

\* mvhd: absent (at = -1), or before trak number at + 1 with movie timescale m;
\* its version is 1 for odd m
MvhdShapes ==
    {[at |-> -1, mts |-> 0, mver |-> 0]}
    \cup {[at |-> a, mts |-> m, mver |-> m % 2] : a \in {0, 1}, m \in 0..MaxMTS}

\* a damaged moov (cut > 0) holds one trak
Mp4Docs ==
    {[fmt |-> "mp4", traks |-> ts, mvhdAt |-> mv.at, mts |-> mv.mts, mver |-> mv.mver,
      cut |-> c] :
        ts \in TrakLists, mv \in MvhdShapes, c \in {0, MoovCut}}

(***************************************************************************)
(* The program: a stream is opened, then Mp4 is called on it.              *)
(***************************************************************************)
NoResult == [val |-> FZero, err |-> "none"]

InitMp4 ==
    /\ doc \in {d \in Mp4Docs : d.cut > 0 => Len(d.traks) = 1}
    /\ r = NewReader(EncMp4(doc))
    /\ res = NoResult
    /\ pc = "ready"

CallMp4 ==
    /\ pc = "ready"
    /\ doc.fmt = "mp4"
    /\ LET c == Mp4(r) IN
        /\ r' = c.r
        /\ res' = [val |-> c.val, err |-> c.err]
    /\ pc' = "done"
    /\ UNCHANGED doc

NextMp4 == CallMp4

SpecMp4 == InitMp4 /\ [][NextMp4]_vars

(***************************************************************************)
(* What a described stream holds, read off doc (not off the bytes).        *)
(***************************************************************************)
Done == pc = "done"

RECURSIVE NormalTotal(_)
NormalTotal(segs) ==
    IF segs = <<>> THEN 0
    ELSE (IF Head(segs).rate = 1 THEN Head(segs).dur ELSE 0) + NormalTotal(Tail(segs))

Sound(d) == d.fmt = "mp4" /\ d.cut = 0

\* mvhd with a timescale > 0 comes before trak number i
MvhdBefore(d, i) == d.mvhdAt >= 0 /\ d.mvhdAt < i /\ d.mts > 0

\* the duration track i resolves to by the priority rule: edit list, else mdhd
HasEdit(d, i) == d.traks[i].edts # "none" /\ NormalTotal(d.traks[i].segs) > 0
                 /\ MvhdBefore(d, i)
Resolves(d, i) == HasEdit(d, i) \/ d.traks[i].ts > 0
Resolved(d, i) == IF HasEdit(d, i) THEN Rat(NormalTotal(d.traks[i].segs), d.mts)
                  ELSE Rat(d.traks[i].dur, d.traks[i].ts)

(***************************************************************************)
(* C1: a non-audio track before an audio track with a usable duration does *)
(* not change the result: Mp4 returns the audio track's duration, whatever *)
(* the non-audio track holds.                                              *)
(***************************************************************************)
C1_Case == /\ Sound(doc) /\ Len(doc.traks) = 2
           /\ doc.traks[1].handler = "vide"
           /\ doc.traks[2].handler = "soun" /\ doc.traks[2].ts > 0

C1_NonAudioTrackIgnored ==
    (Done /\ C1_Case) => res = [val |-> Resolved(doc, 2), err |-> "nil"]

(***************************************************************************)
(* C2: one audio track, no edit list, mdhd with timescale T > 0 and        *)
(* duration D: Mp4 returns D/T and a nil error, for mdhd version 0 and     *)
(* for version 1 alike.                                                    *)
(***************************************************************************)
C2_Case == /\ Sound(doc) /\ Len(doc.traks) = 1
           /\ doc.traks[1].handler = "soun" /\ doc.traks[1].edts = "none"
           /\ doc.traks[1].ts > 0

C2_MdhdQuotient ==
    (Done /\ C2_Case)
        => res = [val |-> Rat(doc.traks[1].dur, doc.traks[1].ts), err |-> "nil"]

C2_Witness ==
    /\ Done /\ C2_Case /\ doc.traks[1].ver = 1 /\ doc.traks[1].ts = MaxTS
    /\ doc.traks[1].dur = 1 /\ res.err = "nil"
    /\ res.val = [cls |-> "num", neg |-> FALSE, num |-> 1, den |-> MaxTS, bits |-> <<>>]

(***************************************************************************)
(* C3: an audio track whose elst has normal-rate entries summing to S > 0, *)
(* with mvhd (movie timescale M > 0) before the track and an mdhd that     *)
(* alone would give D/T: Mp4 returns S/M, with edts before or after mdia.  *)
(***************************************************************************)
C3_Case == /\ Sound(doc) /\ doc.traks[1].handler = "soun"
           /\ doc.traks[1].ts > 0 /\ HasEdit(doc, 1)

C3_EditListFirst ==
    (Done /\ C3_Case)
        => res = [val |-> Rat(NormalTotal(doc.traks[1].segs), doc.mts), err |-> "nil"]

C3_Witness ==
    /\ Done /\ C3_Case /\ doc.traks[1].edts = "after"
    /\ res.err = "nil"
    /\ res.val = Rat(NormalTotal(doc.traks[1].segs), doc.mts)
    /\ res.val # Rat(doc.traks[1].dur, doc.traks[1].ts)

(***************************************************************************)
(* C4: with a nil error Mp4 returns the duration of the first audio track, *)
(* in document order, whose resolved duration is positive; an audio track  *)
(* without a positive duration is passed over, so (0, nil) is never        *)
(* returned while a later audio track has a positive duration.  Stated     *)
(* here for the streams whose tracks are all audio tracks.                 *)
(***************************************************************************)
PositiveAt(d, i) == Resolves(d, i) /\ FPositive(Resolved(d, i))

C4_Case == Sound(doc) /\ \A i \in 1..Len(doc.traks) : doc.traks[i].handler = "soun"

C4_FirstPositiveAudio ==
    (Done /\ C4_Case) =>
        \A i \in 1..Len(doc.traks) :
            (PositiveAt(doc, i) /\ \A j \in 1..(i - 1) : ~PositiveAt(doc, j))
                => res = [val |-> Resolved(doc, i), err |-> "nil"]

(***************************************************************************)
(* C5: a decoded child whose content end lies beyond the end of the range  *)
(* of its parent makes the call return an error.                           *)
(***************************************************************************)
Overrun(rr) == \E k \in 1..Len(rr.log) :
                  rr.log[k].endPos >= 0 /\ rr.log[k].childEnd > rr.log[k].endPos

C5_OverrunFails == (Done /\ Overrun(r)) => res.err # "nil"

(***************************************************************************)
(* WebM inputs: the bytes of a stream described by doc.                    *)
(***************************************************************************)
MaxTrunc == 12    \* a stream is cut short by 0..MaxTrunc bytes at its end

idTimecodeScale == <<42, 215, 177>>     \* 0x2AD7B1
idMuxingApp     == <<77, 128>>          \* 0x4D80
idVoid          == <<236>>              \* 0xEC

\* a size of one byte (below 127) or of two bytes
EncSize(n) == IF n < 127 THEN <<128 + n>> ELSE <<64 + n \div 256, n % 256>>

Elem(id, content) == id \o EncSize(Len(content)) \o content

RECURSIVE Log2(_)
Log2(n) == IF n < 2 THEN 0 ELSE 1 + Log2(n \div 2)

\* the IEEE-754 single and double of a whole number n >= 1
EncF32(n) ==
    LET e == Log2(n)
        x == 127 + e
        f == (n - Pow2(e)) * Pow2(23 - e)
    IN <<x \div 2, (x % 2) * 128 + f \div 65536, (f \div 256) % 256, f % 256>>

EncF64(n) ==
    LET e == Log2(n)
        x == 1023 + e
        f == (n - Pow2(e)) * Pow2(20 - e)
    IN <<x \div 16, (x % 16) * 16 + f \div 65536, (f \div 256) % 256, f % 256>>
       \o Zeros(4)

DurValues == {3, 120}
Timescales == {500000, 1000000}

\* the Duration leaf of an Info block: none, a float of 4 or 8 bytes, 0.0,
\* -v in 4 bytes, or a leaf 2 bytes wide
DurLeaves ==
    {[k |-> "none", v |-> 0], [k |-> "zero", v |-> 0], [k |-> "bad", v |-> 0]}
    \cup [k : {"f32", "f64", "neg"}, v : DurValues]

EncDur(d) ==
    CASE d.k = "none" -> <<>>
      [] d.k = "f32"  -> Elem(PutBE(ebmlIdDur, 2), EncF32(d.v))
      [] d.k = "f64"  -> Elem(PutBE(ebmlIdDur, 2), EncF64(d.v))
      [] d.k = "zero" -> Elem(PutBE(ebmlIdDur, 2), Zeros(8))
      [] d.k = "neg"  -> Elem(PutBE(ebmlIdDur, 2),
                              [EncF32(d.v) EXCEPT ![1] = @ + 128])
      [] d.k = "bad"  -> Elem(PutBE(ebmlIdDur, 2), <<64, 64>>)

\* tsc = 0: no timescale leaf
EncTsc(tsc) == IF tsc = 0 THEN <<>> ELSE Elem(idTimecodeScale, PutBE(tsc, 3))

InfoShapes ==
    [dur : DurLeaves, tsc : {0}, first : {"dur"}]
    \cup [dur : DurLeaves, tsc : Timescales, first : {"dur", "tsc"}]

EncInfo(i) ==
    Elem(PutBE(ebmlIdInfo, 4),
         Elem(idMuxingApp, <<97, 98>>)
         \o (IF i.first = "dur" THEN EncDur(i.dur) \o EncTsc(i.tsc)
             ELSE EncTsc(i.tsc) \o EncDur(i.dur)))

RECURSIVE EncInfos(_)
EncInfos(is) == IF is = <<>> THEN <<>> ELSE EncInfo(Head(is)) \o EncInfos(Tail(is))

EncSegment(is) == Elem(PutBE(ebmlIdSegment, 4), Elem(idVoid, Zeros(3)) \o EncInfos(is))

RECURSIVE EncSegments(_)
EncSegments(ss) ==
    IF ss = <<>> THEN <<>> ELSE EncSegment(Head(ss)) \o EncSegments(Tail(ss))

\* the Info block that may follow another
LastInfos == {[dur |-> d, tsc |-> 0, first |-> "dur"] :
                 d \in {[k |-> "none", v |-> 0], [k |-> "f32", v |-> 3]}}

\* one Segment with one Info, one Segment with two, two Segments with one each
SegmentLists ==
    {<< <<i>> >> : i \in InfoShapes}
    \cup {<< <<i, j>> >> : i \in InfoShapes, j \in LastInfos}
    \cup {<< <<i>>, <<j>> >> : i \in InfoShapes, j \in LastInfos}

WebMDocs ==
    [fmt : {"webm"}, head : BOOLEAN, segs : SegmentLists, trunc : 0..MaxTrunc]

EncWebM(d) ==
    LET all == (IF d.head THEN Elem(PutBE(ebmlIdEBML, 4), <<66, 134, 129, 1>>) ELSE <<>>)
               \o EncSegments(d.segs)
    IN SubSeq(all, 1, Len(all) - d.trunc)

(***************************************************************************)
(* The program: a stream is opened, then WebM is called on it.             *)
(***************************************************************************)
InitWebM ==
    /\ doc \in WebMDocs
    /\ r = NewReader(EncWebM(doc))
    /\ res = NoResult
    /\ pc = "ready"

CallWebM ==
    /\ pc = "ready"
    /\ doc.fmt = "webm"
    /\ LET c == WebM(r) IN
        /\ r' = c.r
        /\ res' = [val |-> c.val, err |-> c.err]
    /\ pc' = "done"
    /\ UNCHANGED doc

NextWebM == CallWebM

SpecWebM == InitWebM /\ [][NextWebM]_vars

(***************************************************************************)
(* What a described WebM stream holds, read off doc.                       *)
(***************************************************************************)
RECURSIVE Flatten(_)
Flatten(ss) == IF ss = <<>> THEN <<>> ELSE Head(ss) \o Flatten(Tail(ss))

Infos(d) == Flatten(d.segs)

\* a Duration leaf that is a float of 4 or 8 bytes and positive
Usable(i) == i.dur.k \in {"f32", "f64"}

Whole(d) == d.fmt = "webm" /\ d.trunc = 0

(***************************************************************************)
(* C6: an Info block with a Duration leaf of raw value R and a timescale   *)
(* leaf of value S makes WebM return R * S / 1,000,000,000; without a      *)
(* timescale leaf S is 1,000,000.                                          *)
(***************************************************************************)
C6_Case == Whole(doc) /\ doc.head /\ Usable(Infos(doc)[1])

C6_ScaledDuration ==
    (Done /\ C6_Case) =>
        LET i == Infos(doc)[1]
            S == IF i.tsc = 0 THEN 1000000 ELSE i.tsc
        IN res = [val |-> FNum(FALSE, i.dur.v * S, 1000000000), err |-> "nil"]

(***************************************************************************)
(* C7: a stream whose first element is not the EBML identification        *)
(* element makes WebM fail; it never returns a duration from such a        *)
(* stream.                                                                 *)
(***************************************************************************)
C7_NotEBMLFails == (Done /\ doc.fmt = "webm" /\ ~doc.head) => res.err # "nil"

(***************************************************************************)
(* C8: an Info block without a usable Duration leaf is no error: the scan  *)
(* goes on behind it, through the Segment and then the top level, and a    *)
(* Duration found later is returned; a stream exhausted without any        *)
(* Duration gives the duration-not-found error; a nil error never comes    *)
(* with a duration that is not positive.                                   *)
(***************************************************************************)
C8_Later == /\ Whole(doc) /\ Len(Infos(doc)) = 2
            /\ ~Usable(Infos(doc)[1]) /\ Usable(Infos(doc)[2])

C8_None == Whole(doc) /\ \A k \in 1..Len(Infos(doc)) : ~Usable(Infos(doc)[k])

\* the last read covered the last bytes of the stream: the later Duration leaf
C8_InfoWithoutDuration ==
    /\ (Done /\ res.err = "nil") => FPositive(res.val)
    /\ (Done /\ C8_Later) => /\ res.err = "nil"
                             /\ r.pos = Len(r.data)
                             /\ (Len(r.data) - 1) \in r.rd
    /\ (Done /\ C8_None) => res.err = "webm duration not found"

C8_Witness ==
    /\ Done /\ C8_Later /\ Len(doc.segs) = 1 /\ Infos(doc)[1].dur.k = "zero"
    /\ res.err = "nil" /\ FPositive(res.val)

(***************************************************************************)
(* C9: a stream that ends inside an element header (after the first byte   *)
(* of an ID, or before the size is complete) makes the call fail with a    *)
(* truncation error; it is never taken for a clean end of range.           *)
(***************************************************************************)
CutInHeader(rr) == \E k \in 1..Len(rr.log) : rr.log[k].scope = "cut"

C9_TruncatedHeaderFails ==
    (Done /\ doc.fmt = "webm" /\ CutInHeader(r)) => IsEOF(res.err)

(***************************************************************************)
(* C10: a Duration leaf whose declared length is neither 4 nor 8 makes     *)
(* WebM return an unsupported-encoding error; it is never skipped.         *)
(***************************************************************************)
C10_Case == Whole(doc) /\ Infos(doc)[1].dur.k = "bad"

WithoutDur(d) == [d EXCEPT !.segs[1][1].dur = [k |-> "none", v |-> 0]]

\* the offsets of the content of the first Info's Duration leaf (2 bytes)
BadContent(d) ==
    LET upto == [d EXCEPT !.segs = << <<d.segs[1][1]>> >>]
        tail == IF d.segs[1][1].first = "dur" THEN Len(EncTsc(d.segs[1][1].tsc)) ELSE 0
        e    == Len(EncWebM(upto)) - tail
    IN {e - 2, e - 1}

UnknownForms == 1..4
PadSizes == {3, 60, 130}

\* w bytes: the length marker, then ones
EncUnknownSize(w) == <<Pow2(9 - w) - 1>> \o [i \in 1..(w - 1) |-> 255]

UnknownDocs ==
    [fmt : {"webm"}, head : BOOLEAN, form : UnknownForms, pad : PadSizes,
     info : [dur : DurLeaves, tsc : {0}, first : {"dur"}]]

EncUnknown(d) ==
    (IF d.head THEN Elem(PutBE(ebmlIdEBML, 4), <<66, 134, 129, 1>>) ELSE <<>>)
    \o PutBE(ebmlIdSegment, 4) \o EncUnknownSize(d.form)
    \o Elem(idVoid, Zeros(d.pad)) \o EncInfo(d.info)

InitUnknown ==
    /\ doc \in UnknownDocs
    /\ r = NewReader(EncUnknown(doc))
    /\ res = NoResult
    /\ pc = "ready"

SpecUnknown == InitUnknown /\ [][NextWebM]_vars

(***************************************************************************)
(* C11: the content of a Segment of unknown size runs to the end of the    *)
(* stream (no sibling follows it here), so a Duration leaf inside it is    *)
(* found however far from the Segment's start it lies: WebM returns with   *)
(* a nil error after reading the content of that leaf, the last bytes of   *)
(* the stream.                                                             *)
(***************************************************************************)
C11_Case == doc.fmt = "webm" /\ doc.info.dur.k \in {"f32", "f64"}

C11_UnknownSizeToEnd ==
    (Done /\ C11_Case) => /\ res.err = "nil"
                          /\ (Len(r.data) - 1) \in r.rd

(***************************************************************************)
(* Streams with a damaged beginning.  The first header is that of a valid  *)
(* stream with its size field replaced (MP4: the 32-bit size of the ftyp   *)
(* box; WebM: the first byte of the ID and the size byte of the EBML       *)
(* element), and the stream is whole or cut down to its first keep bytes.  *)
(***************************************************************************)
MaxKeep == 9      \* a cut stream keeps 0..MaxKeep bytes
MaxFirst == 7     \* a replaced MP4 size field holds 0..MaxFirst, 1 left out

firstBoxSize == 12       \* the ftyp box of EncMp4: 8 + 4
firstIdByte  == 26       \* 0x1A, the first byte of ebmlIdEBML
firstSizeByte == 132     \* 0x84, the size byte of the EBML element of EncWebM

BaseMp4 ==
    [fmt |-> "mp4",
     traks |-> <<[handler |-> "soun", ver |-> 0, ts |-> 1, dur |-> 1,
                  edts |-> "none", segs |-> <<>>]>>,
     mvhdAt |-> -1, mts |-> 0, mver |-> 0, cut |-> 0]

BaseWebM ==
    [fmt |-> "webm", head |-> TRUE, trunc |-> 0,
     segs |-> << <<[dur |-> [k |-> "f32", v |-> 3], tsc |-> 0, first |-> "dur"]>> >>]

FirstDocs ==
    {d \in [fmt : {"mp4"}, id1 : {0}, size : (0..MaxFirst \cup {firstBoxSize}) \ {1},
            whole : BOOLEAN, keep : 0..MaxKeep] : d.whole => d.keep = 0}
    \cup {d \in [fmt : {"webm"}, id1 : {0, firstIdByte}, size : {0, firstSizeByte},
                 whole : BOOLEAN, keep : 0..MaxKeep] : d.whole => d.keep = 0}

EncFirst(d) ==
    LET valid == IF d.fmt = "mp4" THEN EncMp4(BaseMp4) ELSE EncWebM(BaseWebM)
        all   == IF d.fmt = "mp4" THEN PutBE(d.size, 4) \o SubSeq(valid, 5, Len(valid))
                 ELSE <<d.id1>> \o SubSeq(valid, 2, 4) \o <<d.size>>
                      \o SubSeq(valid, 6, Len(valid))
    IN IF d.whole THEN all ELSE SubSeq(all, 1, d.keep)

InitFirst ==
    /\ doc \in FirstDocs
    /\ r = NewReader(EncFirst(doc))
    /\ res = NoResult
    /\ pc = "ready"

NextAny == CallMp4 \/ CallWebM

SpecFirst == InitFirst /\ [][NextAny]_vars

(***************************************************************************)
(* C12: when Mp4 or WebM, called on a stream at offset 0, fails because    *)
(* the first header is malformed or the stream is too short to hold it,    *)
(* the stream is at offset 0 when the call returns.                        *)
(***************************************************************************)
\* the bytes of the first header: 8 (MP4), 4 of ID and 1 of size (WebM)
FirstHeaderLen(d) == IF d.fmt = "mp4" THEN 8 ELSE 5

TooShort(d) == ~d.whole /\ d.keep < FirstHeaderLen(d)

Malformed(d) == /\ ~TooShort(d)
                /\ IF d.fmt = "mp4" THEN d.size < 8 ELSE d.id1 = 0 \/ d.size = 0

C12_Case == doc.fmt \in {"mp4", "webm"} /\ "whole" \in DOMAIN doc
            /\ (TooShort(doc) \/ Malformed(doc))

C12_InitialErrorAtStart ==
    (Done /\ C12_Case) => /\ res.err # "nil"
                          /\ r.pos = 0

(***************************************************************************)
(* Mp4 and WebM together: the streams of SpecMp4 and of SpecWebM.          *)
(***************************************************************************)
InitBoth == InitMp4 \/ InitWebM

SpecBoth == InitBoth /\ [][NextAny]_vars

(***************************************************************************)
(* Where the content of the passed-over elements lies in a stream: the     *)
(* offsets of the n bytes that follow each occurrence of the bytes pat     *)
(* (the end of a header: type tag, or ID and size).                        *)
(***************************************************************************)
ContentAfter(data, pat, n) ==
    UNION {(i - 1 + Len(pat)) .. (i - 2 + Len(pat) + n) :
              i \in {j \in 1..(Len(data) - Len(pat) + 1) :
                        SubSeq(data, j, j + Len(pat) - 1) = pat}}

\* MP4: ftyp, the free box of each trak, and an edts box met while the
\* movie timescale is 0 (its content is the elst box)
PassedOverMp4(d, data) ==
    ContentAfter(data, tagFtyp, 4)
    \cup ContentAfter(data, tagFree, 4)
    \cup (IF d.traks[1].edts # "none" /\ ~MvhdBefore(d, 1)
          THEN ContentAfter(data, tagEdts,
                            Len(EncElst(d.traks[1].ver, d.traks[1].segs)))
          ELSE {})

\* WebM: the EBML element, Void, MuxingApp, the timescale leaf
PassedOverWebM(data) ==
    ContentAfter(data, PutBE(ebmlIdEBML, 4) \o <<132>>, 4)
    \cup ContentAfter(data, idVoid \o <<131>>, 3)
    \cup ContentAfter(data, idMuxingApp \o <<130>>, 2)
    \cup ContentAfter(data, idTimecodeScale \o <<131>>, 3)

PassedOver(d, data) ==
    IF d.fmt = "mp4" THEN PassedOverMp4(d, data) ELSE PassedOverWebM(data)

TwoDocs == {d \in Mp4Docs : Len(d.traks) = 1 /\ d.traks[1].ver = 0 /\ d.cut = 0}
           \cup {d \in WebMDocs : Len(d.segs) = 1 /\ Len(d.segs[1]) = 1 /\ d.trunc <= 4}

EncAny(d) == IF d.fmt = "mp4" THEN EncMp4(d) ELSE EncWebM(d)

Resolve(fmt, rr) == IF fmt = "mp4" THEN Mp4(rr) ELSE WebM(rr)

\* both cursors served by the first one
CursorShared(rs, i) == rs[1]

\* the cursor call number i is made on
Cursor(rs, i) == rs[i]

InitTwo ==
    /\ doc \in TwoDocs
    /\ r = <<NewReader(EncAny(doc)), NewReader(EncAny(doc))>>
    /\ res = <<NoResult, NoResult>>
    /\ pc = <<"ready", "ready">>

CallOn(i) ==
    /\ pc[i] = "ready"
    /\ LET c == Resolve(doc.fmt, Cursor(r, i)) IN
        /\ r' = [r EXCEPT ![i] = c.r]
        /\ res' = [res EXCEPT ![i] = [val |-> c.val, err |-> c.err]]
    /\ pc' = [pc EXCEPT ![i] = "done"]
    /\ UNCHANGED doc

NextTwo == CallOn(1) \/ CallOn(2)

SpecTwo == InitTwo /\ [][NextTwo]_vars

Uint64(b) == [hi |-> BE(SubSeq(b, 1, 5)), lo |-> BE(SubSeq(b, 6, 8))]

\* w & 0x7ffffffff : 11 bits of hi, all 24 of lo
And7ffffffff(w) == [hi |-> w.hi % 2048, lo |-> w.lo]

\* float64(w) / float64(d)
FQuot(w, d) ==
    IF d = 0
    THEN (IF w.hi = 0 /\ w.lo = 0
          THEN [cls |-> "nan", neg |-> FALSE, num |-> 0, den |-> 0, bits |-> <<>>]
          ELSE [cls |-> "inf", neg |-> FALSE, num |-> 0, den |-> 0, bits |-> <<>>])
    ELSE IF w.hi = 0 THEN Rat(w.lo, d)
    ELSE [cls |-> "wide", neg |-> FALSE, num |-> <<w.hi, w.lo>>, den |-> d, bits |-> <<>>]

tagFLAC == <<102, 76, 97, 67>>     \* "fLaC"

\* the body of  if blockType == 0
flacStreamInfo(rr, blockSize) ==
    With([s \in {ReadFull(rr, blockSize)} |->
    IF s.err # "nil" THEN [val |-> FZero, err |-> s.err, r |-> s.r]
    ELSE IF blockSize < 18
    THEN [val |-> FZero, err |-> "panic: slice bounds out of range", r |-> s.r]
    ELSE [val |-> FQuot(And7ffffffff(Uint64(<<0, 0, 0>> \o SubSeq(s.buf, 14, 18))),
                        BE(<<0>> \o SubSeq(s.buf, 11, 13)) \div 16),
          err |-> "nil", r |-> s.r]])

\* the  for  loop over the metadata block headers
RECURSIVE flacLoop(_)
flacLoop(rr) ==
    With([h \in {ReadFull(rr, 4)} |->
    IF h.err # "nil" THEN [val |-> FZero, err |-> h.err, r |-> h.r]
    ELSE IF h.buf[1] % 128 = 0
    THEN flacStreamInfo(h.r, BE(SubSeq(h.buf, 2, 4)))
    ELSE flacLoop(h.r)])

FLAC(rr) ==
    With([b \in {ReadFull(rr, 4)} |->
    IF b.err # "nil" THEN [val |-> FZero, err |-> b.err, r |-> b.r]
    ELSE IF b.buf # tagFLAC
    THEN [val |-> FZero, err |-> "expected 'fLaC' at file start", r |-> b.r]
    ELSE flacLoop(b.r)])

(***************************************************************************)
(* FLAC inputs: "fLaC", then the STREAMINFO block (34 bytes): block sizes  *)
(* and frame sizes (10 bytes), the sample rate (20 bits), channels and     *)
(* bits per sample (8 bits, all d.fill), the total samples (36 bits, in    *)
(* the parts hi: 12 bits and lo: 24 bits), the MD5 signature (16 bytes).   *)
(***************************************************************************)
FlacRates == {0, 1, 44100, 1048575}
FlacTotalHi == {0, 1, 2047, 2048, 4095}
FlacTotalLo == {0, 1, 88200, 16777215}

FlacDocs ==
    [fmt : {"flac"}, rate : FlacRates, hi : FlacTotalHi, lo : FlacTotalLo,
     fill : {0, 1}, last : BOOLEAN]

EncFlac(d) ==
    tagFLAC
    \o <<IF d.last THEN 128 ELSE 0, 0, 0, 34>>
    \o <<16, 0, 16, 0>> \o Zeros(6)
    \o PutBE(d.rate \div 16, 2)
    \o <<(d.rate % 16) * 16 + d.fill * 15>>
    \o <<d.fill * 240 + d.hi \div 256, d.hi % 256>> \o PutBE(d.lo, 3)
    \o [i \in 1..16 |-> 7]
    \o (IF d.last THEN <<>> ELSE <<129, 0, 0, 0>>)

InitFlac ==
    /\ doc \in FlacDocs
    /\ r = NewReader(EncFlac(doc))
    /\ res = NoResult
    /\ pc = "ready"

CallFLAC ==
    /\ pc = "ready"
    /\ doc.fmt = "flac"
    /\ LET c == FLAC(r) IN
        /\ r' = c.r
        /\ res' = [val |-> c.val, err |-> c.err]
    /\ pc' = "done"
    /\ UNCHANGED doc

NextFlac == CallFLAC

SpecFlac == InitFlac /\ [][NextFlac]_vars

(***************************************************************************)
(* C16: for a stream that starts with "fLaC" and a STREAMINFO block, FLAC  *)
(* returns totalSamples / sampleRate with the whole 20-bit sample rate and *)
(* the whole 36-bit total of samples, and a nil error.                     *)
(***************************************************************************)
C16_FullFields ==
    (Done /\ doc.fmt = "flac") =>
        res = [val |-> FQuot([hi |-> doc.hi, lo |-> doc.lo], doc.rate), err |-> "nil"]

(***************************************************************************)
(* Mp3.  A float64 result is kept as the expression the code evaluates,    *)
(* left to right, over exactly converted integers: <<a, "/", b, "*", c>>   *)
(* (class "expr").  Equal operands give equal values; with the other       *)
(* operands equal and positive, first operands that differ by more than    *)
(* one part in 2^50 give values that differ.                               *)
(***************************************************************************)
FExpr(e) == [cls |-> "expr", neg |-> FALSE, num |-> e, den |-> 0, bits |-> <<>>]

mpeg1  == 3
mpeg2  == 2
mpeg25 == 0

layerI   == 3
layerII  == 2
layerIII == 1

singleChannel == 3

tagID3 == <<73, 68, 51>>          \* "ID3"
tagVBRI == <<86, 66, 82, 73>>     \* "VBRI"
tagXing == <<88, 105, 110, 103>>  \* "Xing"
tagInfo == <<73, 110, 102, 111>>  \* "Info"

\* the tables are indexed from 0 in the source
getSampleRate(mpegVer, sampleRateIndex) ==
    IF mpegVer = mpeg2 THEN <<22050, 24000, 16000>>[sampleRateIndex + 1]
    ELSE IF mpegVer = mpeg25 THEN <<11025, 12000, 8000>>[sampleRateIndex + 1]
    ELSE <<44100, 48000, 32000>>[sampleRateIndex + 1]

getBitRate(mpegVer, layer, bitRateIndex) ==
    IF mpegVer = mpeg1
    THEN (CASE layer = layerI ->
                 <<0, 32, 64, 96, 128, 160, 192, 224, 256, 288, 320, 352, 384, 416, 448, 0>>
            [] layer = layerII ->
                 <<0, 32, 48, 56, 64, 80, 96, 112, 128, 160, 192, 224, 256, 320, 384, 0>>
            [] layer = layerIII ->
                 <<0, 32, 40, 48, 56, 64, 80, 96, 112, 128, 160, 192, 224, 256, 320, 0>>
         )[bitRateIndex + 1]
    ELSE IF mpegVer \in {mpeg2, mpeg25}
    THEN (CASE layer = layerI ->
                 <<0, 32, 48, 56, 64, 80, 96, 112, 128, 144, 160, 176, 192, 224, 256, 0>>
            [] layer \in {layerII, layerIII} ->
                 <<0, 8, 16, 24, 32, 40, 48, 56, 64, 80, 96, 112, 128, 144, 160, 0>>
         )[bitRateIndex + 1]
    ELSE 0

getSamples(mpegVer, layer) ==
    CASE layer = layerI -> 384
      [] layer = layerII -> 1152
      [] layer = layerIII /\ mpegVer = mpeg1 -> 1152
      [] layer = layerIII /\ mpegVer \in {mpeg2, mpeg25} -> 576
      [] OTHER -> 0

\* int(frameLen) of the float32 expression: the whole part of the exact
\* value (the operands of this model are far from a rounding boundary)
frameLength(layer, padding, samples, bitRateK, sampleRate) ==
    IF layer = layerI THEN (48 * (bitRateK * 1000)) \div sampleRate + 4 * padding
    ELSE IF layer \in {layerII, layerIII}
    THEN ((samples \div 8) * (bitRateK * 1000)) \div sampleRate + padding
    ELSE 0

getSideInfoLen(mpegVer, mode) ==
    IF mode = singleChannel
    THEN (IF mpegVer = mpeg1 THEN 17 ELSE IF mpegVer \in {mpeg2, mpeg25} THEN 9 ELSE 0)
    ELSE (IF mpegVer = mpeg1 THEN 32 ELSE IF mpegVer \in {mpeg2, mpeg25} THEN 17 ELSE 0)

parseVBRI(rr) ==
    With([a \in {ReadFull(SeekCurrent(rr, 10).r, 4)} |->
    IF a.err # "nil" THEN [totalFrame |-> 0, err |-> a.err, r |-> a.r]
    ELSE With([b \in {ReadFull(a.r, 4)} |->
         IF b.err # "nil" THEN [totalFrame |-> 0, err |-> b.err, r |-> b.r]
         ELSE [totalFrame |-> BE(b.buf), err |-> "nil", r |-> b.r]])])

parseXing(rr) ==
    With([a \in {ReadFull(rr, 4)} |->
    IF a.err # "nil" THEN [totalFrame |-> 0, err |-> a.err, r |-> a.r]
    ELSE IF BE(a.buf) % 2 = 0
    THEN [totalFrame |-> 0, err |-> "no frame info in Xing header", r |-> a.r]
    ELSE With([b \in {ReadFull(a.r, 4)} |->
         IF b.err # "nil" THEN [totalFrame |-> 0, err |-> b.err, r |-> b.r]
         ELSE [totalFrame |-> BE(b.buf), err |-> "nil", r |-> b.r]])])

\* a | b  for a a multiple of 128 and b a byte
Or7(a, b) == IF b >= 128 /\ (a \div 128) % 2 = 1 THEN a + b - 128 ELSE a + b

\* the loop  for i := 6; i < 10; i++  (headbuf is indexed from 0)
RECURSIVE id3Size(_, _, _)
id3Size(headbuf, i, offset) ==
    IF i >= 10 THEN offset ELSE id3Size(headbuf, i + 1, Or7(offset * 128, headbuf[i + 1]))

parseID3v2Length(headbuf) ==
    id3Size(headbuf, 6, 0) + (IF (headbuf[6] \div 16) % 2 = 1 THEN 10 ELSE 0)


\* The loop that looks for 1111 1111 111x xxxx, from offset i on: the offset
\* of the byte that ends it, the first one after i that has its upper three
\* bits set and follows a byte 0xFF, or the length of the stream when no
\* byte ends it.
syncEnds(data, i) == {j \in (i + 1)..(Len(data) - 1) : data[j] = 255 /\ data[j + 1] \div 32 = 7}

syncEnd(data, i) ==
    IF syncEnds(data, i) = {} THEN (IF i > Len(data) THEN i ELSE Len(data))
    ELSE CHOOSE j \in syncEnds(data, i) : \A k \in syncEnds(data, i) : j <= k

\* the loop with its reads of one byte each, the last one included; count is
\* readByteCount
mp3Sync(rr, count) ==
    With([e \in {syncEnd(rr.data, rr.pos)} |->
    IF e >= Len(rr.data)
    THEN [r |-> [rr EXCEPT !.pos = e, !.rd = @ \cup (rr.pos .. e - 1),
                           !.ops = @ \o [k \in 1..(e - rr.pos + 1) |-> <<"read", 1>>]],
          err |-> "EOF", b0 |-> 0, count |-> count]
    ELSE [r |-> [rr EXCEPT !.pos = e + 1, !.rd = @ \cup (rr.pos .. e),
                           !.ops = @ \o [k \in 1..(e - rr.pos + 1) |-> <<"read", 1>>]],
          err |-> "nil", b0 |-> rr.data[e + 1], count |-> count + (e - rr.pos)]])

\* r.Stat().Size()
FileSize(rr) == Len(rr.data)

\* Mp3 from the 4 bytes that follow the frame header and the side info
mp3Frames(rr, samples, sampleRate, frameLen, readByteCount) ==
    With([t \in {ReadFull(rr, 4)} |->
    IF t.err # "nil" THEN [val |-> FZero, err |-> t.err, r |-> t.r]
    ELSE IF t.buf = tagVBRI
    THEN With([v \in {parseVBRI(t.r)} |->
         IF v.err # "nil" THEN [val |-> FZero, err |-> v.err, r |-> v.r]
         ELSE [val |-> FExpr(<<samples, "/", sampleRate, "*", v.totalFrame>>),
               err |-> "nil", r |-> v.r]])
    ELSE IF t.buf \in {tagXing, tagInfo}
    THEN With([x \in {parseXing(t.r)} |->
         IF x.err # "nil" THEN [val |-> FZero, err |-> x.err, r |-> x.r]
         ELSE [val |-> FExpr(<<samples, "/", sampleRate, "*", x.totalFrame>>),
               err |-> "nil", r |-> x.r]])
    ELSE [val |-> FExpr(<<FileSize(t.r) - (readByteCount - 1), "/", frameLen,
                          "*", samples, "/", sampleRate>>),
          err |-> "nil", r |-> t.r]])

\* Mp3 from the second byte of the frame header, b0.  A layer or a sample
\* rate index the tables have no entry for stops the program (a run-time
\* panic): the error "panic".
mp3Header(rr, b0, count) ==
    With([mpegVer \in {(b0 \div 8) % 4} |->
    With([layer \in {(b0 % 8) \div 2} |->
    With([b \in {ReadFull(rr, 1)} |->
    IF b.err # "nil" THEN [val |-> FZero, err |-> b.err, r |-> b.r]
    ELSE IF (layer = 0 /\ mpegVer # 1) \/ (b.buf[1] \div 4) % 4 = 3
    THEN [val |-> FZero, err |-> "panic", r |-> b.r]
    ELSE With([c \in {ReadFull(b.r, 1)} |->
         IF c.err # "nil" THEN [val |-> FZero, err |-> c.err, r |-> c.r]
         ELSE With([r1 \in {IF b0 % 2 = 0 THEN SeekCurrent(c.r, 2).r ELSE c.r} |->
              mp3Frames(IF layer = layerIII
                        THEN SeekCurrent(r1, getSideInfoLen(mpegVer, c.buf[1] \div 64)).r
                        ELSE r1,
                        getSamples(mpegVer, layer),
                        getSampleRate(mpegVer, (b.buf[1] \div 4) % 4),
                        frameLength(layer, (b.buf[1] \div 2) % 2, getSamples(mpegVer, layer),
                                    getBitRate(mpegVer, layer, b.buf[1] \div 16),
                                    getSampleRate(mpegVer, (b.buf[1] \div 4) % 4)),
                        count + 2)])])])])])

Mp3(rr) ==
    With([h \in {ReadFull(rr, 10)} |->
    IF h.err # "nil" THEN [val |-> FZero, err |-> h.err, r |-> h.r]
    ELSE With([s \in {IF SubSeq(h.buf, 1, 3) = tagID3
                      THEN mp3Sync(SeekCurrent(h.r, parseID3v2Length(h.buf)).r,
                                   parseID3v2Length(h.buf))
                      ELSE mp3Sync(SeekStart(h.r, 0).r, 0)} |->
         IF s.err # "nil" THEN [val |-> FZero, err |-> s.err, r |-> s.r]
         ELSE mp3Header(s.r, s.b0, s.count + 1)])])


(***************************************************************************)
(* MP3 streams: an optional ID3v2 tag (header, body of zero bytes, and a   *)
(* footer when the footer flag is set), one frame header, the CRC and the  *)
(* side information where the header calls for them, an optional Xing,     *)
(* Info or VBRI header, and audio bytes.                                   *)
(***************************************************************************)
TagLens == {0, 5, 130}
BodyLens == {50, 400}

\* a 28-bit number as four 7-bit bytes
Synchsafe(n) == <<(n \div 2097152) % 128, (n \div 16384) % 128, (n \div 128) % 128, n % 128>>

EncID3(tag, n) ==
    IF tag = "none" THEN <<>>
    ELSE tagID3 \o <<4, 0, IF tag = "footer" THEN 16 ELSE 0>> \o Synchsafe(n) \o Zeros(n)
         \o (IF tag = "footer" THEN <<51, 68, 73, 4, 0, 16>> \o Synchsafe(n) ELSE <<>>)

EncVbr(vbr, frames) ==
    CASE vbr = "Xing" -> tagXing \o PutBE(1, 4) \o PutBE(frames, 4)
      [] vbr = "Info" -> tagInfo \o PutBE(1, 4) \o PutBE(frames, 4)
      [] vbr = "VBRI" -> tagVBRI \o Zeros(10) \o PutBE(0, 4) \o PutBE(frames, 4)
      [] OTHER -> <<>>

EncFrames(d) ==
    <<255, 224 + d.ver * 8 + d.layer * 2 + d.prot,
      d.bri * 16 + d.sfi * 4 + d.pad * 2, d.mode * 64>>
    \o (IF d.prot = 0 THEN Zeros(2) ELSE <<>>)
    \o (IF d.layer = layerIII THEN Zeros(getSideInfoLen(d.ver, d.mode)) ELSE <<>>)
    \o EncVbr(d.vbr, d.frames) \o Zeros(d.body)

EncMp3(d) == EncID3(d.tag, d.tagLen) \o EncFrames(d)

Mp3Docs ==
    {d \in [fmt : {"mp3"}, tag : {"none", "id3", "footer"}, tagLen : TagLens,
            ver : {mpeg1, mpeg2}, bri : {9}, frames : {7}, layer : {layerI, layerII, layerIII}, prot : {0, 1},
            sfi : {0, 2}, pad : {0, 1}, mode : {0, singleChannel},
            vbr : {"none", "Xing", "Info", "VBRI"}, body : BodyLens] :
        d.tag = "none" => d.tagLen = 0}

InitMp3 ==
    /\ doc \in Mp3Docs
    /\ r = NewReader(EncMp3(doc))
    /\ res = NoResult
    /\ pc = "ready"

CallMp3 ==
    /\ pc = "ready"
    /\ doc.fmt = "mp3"
    /\ LET c == Mp3(r) IN
        /\ r' = c.r
        /\ res' = [val |-> c.val, err |-> c.err]
    /\ pc' = "done"
    /\ UNCHANGED doc

SpecMp3 == InitMp3 /\ [][CallMp3]_vars

\* the stream of d without its tag
Untagged(d) == EncMp3([d EXCEPT !.tag = "none", !.tagLen = 0])

(***************************************************************************)
(* C17: a leading ID3v2 tag does not change the result: for a stream       *)
(* without a Xing, Info or VBRI header, Mp3 returns on the stream with the *)
(* tag what it returns on the stream without it.                           *)
(***************************************************************************)
C17_Case == doc.fmt = "mp3" /\ doc.tag # "none" /\ doc.vbr = "none"

C17_TagDoesNotChangeResult ==
    (Done /\ C17_Case) =>
        res = [val |-> Mp3(NewReader(Untagged(doc))).val,
               err |-> Mp3(NewReader(Untagged(doc))).err]

\* a tagged stream whose result has 10 bytes more audio than the untagged one
C17_Counterexample ==
    /\ Done /\ C17_Case /\ res.err = "nil"
    /\ Mp3(NewReader(Untagged(doc))).err = "nil"
    /\ res.val.num[1] = Mp3(NewReader(Untagged(doc))).val.num[1] + 10
    /\ Tail(res.val.num) = Tail(Mp3(NewReader(Untagged(doc))).val.num)


(***************************************************************************)
(* Duration.  Ogg, DSD, Wav and AAC are not decoded here: a call of one of *)
(* them is kept as the call itself, the function and the stream and        *)
(* position it is given (class "call"), so two calls return the same pair  *)
(* only if they are the same call.                                         *)
(***************************************************************************)
TypeFlac == 0
TypeMp4  == 1
TypeMp3  == 2
TypeOgg  == 3
TypeDsd  == 4
TypeWav  == 5
TypeAac  == 6
TypeWebM == 7

Called(filetype, rr) ==
    [val |-> [cls |-> "call", neg |-> FALSE, num |-> <<filetype, rr.data, rr.pos>>,
              den |-> 0, bits |-> <<>>],
     err |-> "call",
     r   |-> [rr EXCEPT !.ops = Append(@, <<"call", filetype>>)]]

\* a stream left where it is
rewindNot(rr) == rr

\* file.Seek(0, io.SeekStart), its results dropped
rewind(rr) == SeekStart(rr, 0).r

\* the switch of Duration
durationSwitch(rr, filetype) ==
    CASE filetype = TypeFlac -> FLAC(rr)
      [] filetype = TypeMp4 -> Mp4(rr)
      [] filetype = TypeMp3 -> Mp3(rr)
      [] filetype \in {TypeOgg, TypeDsd, TypeWav, TypeAac} -> Called(filetype, rr)
      [] filetype = TypeWebM -> WebM(rr)
      [] OTHER -> [val |-> FZero, err |-> "unsupported type: " \o ToString(filetype),
                   r |-> rr]

\* Duration without its second seek
DurationAsLeft(file, filetype) ==
    With([c \in {durationSwitch(rewind(file), filetype)} |->
        [val |-> c.val, err |-> c.err, r |-> c.r]])

Duration(file, filetype) ==
    With([c \in {durationSwitch(rewind(file), filetype)} |->
        [val |-> c.val, err |-> c.err, r |-> rewind(c.r)]])

\* the streams Duration is called on, a few of each format
DurationFiles ==
    {d \in Mp4Docs : /\ Len(d.traks) = 1 /\ d.cut = 0 /\ d.mvhdAt = 0 /\ d.mts = 1
                     /\ d.traks[1].ver = 0 /\ d.traks[1].ts \in {0, 1}
                     /\ d.traks[1].dur = 1 /\ d.traks[1].edts # "after"
                     /\ Len(d.traks[1].segs) <= 1}
    \cup {d \in WebMDocs : /\ d.head /\ d.trunc \in {0, 1} /\ Len(d.segs) = 1
                           /\ Len(d.segs[1]) = 1 /\ d.segs[1][1].tsc = 0}
    \cup {d \in FlacDocs : d.rate \in {0, 44100} /\ d.hi = 0 /\ d.fill = 0 /\ ~d.last}
    \cup {d \in Mp3Docs : /\ d.tag = "id3" /\ d.tagLen \in {0, 5} /\ d.ver = mpeg1
                          /\ d.layer = layerIII /\ d.prot = 1 /\ d.sfi = 0 /\ d.pad = 0
                          /\ d.mode = 0 /\ d.vbr \in {"none", "Xing"} /\ d.body = 50}

EncFile(d) ==
    CASE d.fmt = "mp4" -> EncMp4(d)
      [] d.fmt = "webm" -> EncWebM(d)
      [] d.fmt = "flac" -> EncFlac(d)
      [] d.fmt = "mp3" -> EncMp3(d)

FileTypes == -1..8
\* offsets of the stream before the call (the fields a format function decodes
\* from them stay below 2^31)
StartAts == {0, 1, 5, 40}

\* the stream is somewhere before the call
InitDuration ==
    /\ doc \in [fmt : {"file"}, file : DurationFiles, filetype : FileTypes, at : StartAts]
    /\ r = [NewReader(EncFile(doc.file)) EXCEPT !.pos = doc.at]
    /\ res = NoResult
    /\ pc = "ready"

CallDuration ==
    /\ pc = "ready"
    /\ doc.fmt = "file"
    /\ LET c == Duration(r, doc.filetype) IN
        /\ r' = c.r
        /\ res' = [val |-> c.val, err |-> c.err]
    /\ pc' = "done"
    /\ UNCHANGED doc

SpecDuration == InitDuration /\ [][CallDuration]_vars

\* the format function of a type constant, called on a stream
Matching(filetype, rr) ==
    IF filetype = 0 THEN FLAC(rr)
    ELSE IF filetype = 1 THEN Mp4(rr)
    ELSE IF filetype = 2 THEN Mp3(rr)
    ELSE IF filetype = 7 THEN WebM(rr)
    ELSE Called(filetype, rr)

(***************************************************************************)
(* C14: for a supported type constant Duration returns the value and the   *)
(* error the matching format function returns on the same stream at offset *)
(* 0, wherever the stream was before the call; for any other type it       *)
(* returns 0 and the unsupported-type error, and the stream sees the two   *)
(* seeks of Duration and no call of a format function.                     *)
(***************************************************************************)
C14_Case == Done /\ doc.fmt = "file"

C14_DurationDispatch ==
    C14_Case =>
        IF doc.filetype \in 0..7
        THEN /\ res.val = Matching(doc.filetype, NewReader(EncFile(doc.file))).val
             /\ res.err = Matching(doc.filetype, NewReader(EncFile(doc.file))).err
        ELSE /\ res = [val |-> FZero, err |-> "unsupported type: " \o ToString(doc.filetype)]
             /\ r.ops = << <<"seek", 0>>, <<"seek", 0>> >>
             /\ r.rd = {}

\* Mp4 through Duration on a stream that was at offset 5, with a duration
C14_Witness ==
    /\ C14_Case /\ doc.at = 5 /\ doc.filetype = TypeMp4 /\ doc.file.fmt = "mp4"
    /\ res.err = "nil" /\ FPositive(res.val)


(***************************************************************************)
(* C18: an audio trak that comes before mvhd (or in a moov without mvhd)   *)
(* cannot use the movie timescale: its edts is passed over, no header is   *)
(* decoded inside it, and Mp4 returns the mdhd duration over the mdhd      *)
(* timescale, even when the elst has normal-rate entries with a positive   *)
(* total and mvhd follows the trak with a positive timescale.              *)
(***************************************************************************)
C18_Case == /\ Sound(doc) /\ doc.traks[1].handler = "soun" /\ doc.traks[1].ts > 0
            /\ doc.traks[1].edts # "none" /\ NormalTotal(doc.traks[1].segs) > 0
            /\ doc.mvhdAt # 0

C18_MvhdAfterTrak ==
    (Done /\ C18_Case) =>
        /\ res = [val |-> Rat(doc.traks[1].dur, doc.traks[1].ts), err |-> "nil"]
        /\ \A i \in 1..Len(r.log) : r.log[i].scope # "edts"

\* mvhd with a positive timescale follows the trak, and the edit list would
\* have given another duration
C18_Witness ==
    /\ Done /\ C18_Case /\ doc.mvhdAt = 1 /\ doc.mts > 0
    /\ res.err = "nil"
    /\ res.val = Rat(doc.traks[1].dur, doc.traks[1].ts)
    /\ res.val # Rat(NormalTotal(doc.traks[1].segs), doc.mts)


\* the reads of readElstSeconds on an elst box of n entries: its header, the
\* version and flags, the entry count, and three fields an entry
ElstReads(ver, n) ==
    << <<"read", 8>>, <<"read", 4>>, <<"read", 4>> >>
    \o [k \in 1..(3 * n) |-> <<"read", IF k % 3 = 0 THEN 4 ELSE IF ver = 1 THEN 8 ELSE 4>>]

\* ops holds the reads rs one after the other, and a seek after them
ReadsThenSeek(ops, rs) ==
    \E k \in 1..(Len(ops) - Len(rs)) :
        /\ SubSeq(ops, k, k + Len(rs) - 1) = rs
        /\ ops[k + Len(rs)][1] = "seek"

(***************************************************************************)
(* C19: for an audio trak whose edts is parsed (mvhd with timescale M > 0  *)
(* before it), every entry of the elst is read, with 8-byte fields for     *)
(* version 1 and 4-byte fields otherwise; the total is the sum of the      *)
(* segment durations of the entries whose rate is 1; the track resolves to *)
(* total / M when the total is positive and to the mdhd quotient when it   *)
(* is 0.                                                                   *)
(***************************************************************************)
C19_Case == /\ Sound(doc) /\ Len(doc.traks) = 1 /\ doc.traks[1].handler = "soun"
            /\ doc.traks[1].ts > 0 /\ doc.traks[1].edts # "none" /\ MvhdBefore(doc, 1)

C19_NormalRateTotal ==
    (Done /\ C19_Case) =>
        /\ ReadsThenSeek(r.ops, ElstReads(doc.traks[1].ver, Len(doc.traks[1].segs)))
        /\ res.err = "nil"
        /\ res.val = IF NormalTotal(doc.traks[1].segs) > 0
                     THEN Rat(NormalTotal(doc.traks[1].segs), doc.mts)
                     ELSE Rat(doc.traks[1].dur, doc.traks[1].ts)

\* a version-1 list of two entries, the second one with rate 2 left out of the sum
C19_Witness ==
    /\ Done /\ C19_Case /\ doc.traks[1].ver = 1
    /\ doc.traks[1].segs = <<N(1), [dur |-> MaxSeg, rate |-> 2]>>
    /\ res = [val |-> Rat(1, doc.mts), err |-> "nil"]
    /\ res.val # Rat(1 + MaxSeg, doc.mts)


(***************************************************************************)
(* MP4 streams with an empty container: a box of the named type whose      *)
(* declared size is its header length, followed by boxes that are not its  *)
(* children.                                                               *)
(***************************************************************************)
EmptyKinds == {"moov", "trak", "mdia", "edts"}

EmptyDocs ==
    [fmt : {"mp4"}, empty : EmptyKinds, mts : 0..MaxMTS,
     trak : {t \in TrakShapes : t.edts = "none"}]

\* the empty box, then what follows it in the stream
EncEmpty(d) ==
    LET mvhd == Box(tagMvhd, EncTimes(d.mts % 2, d.mts, 5), FALSE)
        none == Box(d.empty, <<>>, FALSE)
    IN Box(tagFtyp, Zeros(4), FALSE)
       \o (CASE d.empty = "moov" -> Box(tagMoov, <<>>, FALSE)
                                    \o Box(tagMoov, mvhd \o EncTrak(d.trak), FALSE)
             [] d.empty = "trak" -> Box(tagMoov, mvhd \o Box(tagTrak, <<>>, FALSE)
                                                 \o EncTrak(d.trak), FALSE)
             [] d.empty = "mdia" -> Box(tagMoov, mvhd \o Box(tagTrak, Box(tagMdia, <<>>, FALSE)
                                                                 \o EncMdia(d.trak), FALSE),
                                        FALSE)
             [] d.empty = "edts" -> Box(tagMoov, mvhd \o Box(tagTrak, Box(tagEdts, <<>>, FALSE)
                                                                 \o EncMdia(d.trak), FALSE),
                                        FALSE))

InitEmpty ==
    /\ doc \in EmptyDocs
    /\ r = NewReader(EncEmpty(doc))
    /\ res = NoResult
    /\ pc = "ready"

SpecEmpty == InitEmpty /\ [][NextMp4]_vars

(***************************************************************************)
(* C20: in the scopes moov, trak, mdia and edts a header is decoded only   *)
(* at a position before the end of the scope's range, so that the boxes    *)
(* that follow an empty container are not taken for its children.          *)
(***************************************************************************)
C20_HeaderBeforeRangeEnd ==
    \A i \in 1..Len(r.log) :
        r.log[i].scope \in EmptyKinds => r.log[i].at < r.log[i].endPos


(***************************************************************************)
(* readEbmlId and readEbmlSize on their own: a first byte, then up to      *)
(* MaxTail bytes of one of three patterns.                                 *)
(***************************************************************************)
MaxTail == 8

\* for every number of leading zero bits: the marker alone, the marker with
\* every lower bit set, and two more; and the byte without a marker
FirstBytes == {Pow2(k) : k \in 0..7} \cup {Pow2(k + 1) - 1 : k \in 0..7} \cup {0, 26, 66}

TailBytes == {[i \in 1..MaxTail |-> 0], [i \in 1..MaxTail |-> 255],
              [i \in 1..MaxTail |-> 16 * i + 1]}

VintDocs ==
    [fmt : {"vint"}, fn : {"id", "size"}, first : FirstBytes, tail : TailBytes,
     keep : 0..MaxTail]

EncVint(d) == <<d.first>> \o SubSeq(d.tail, 1, d.keep)

InitVint ==
    /\ doc \in VintDocs
    /\ r = NewReader(EncVint(doc))
    /\ res = NoResult
    /\ pc = "ready"

\* one call of readEbmlId or of readEbmlSize; the value and the length it
\* reports are the result
CallVint ==
    /\ pc = "ready"
    /\ doc.fmt = "vint"
    /\ LET c == IF doc.fn = "id" THEN readEbmlId(r) ELSE readEbmlSize(r) IN
        /\ r' = c.r
        /\ res' = [val |-> [u64 |-> c.u64, len |-> c.len], err |-> c.err]
    /\ pc' = "done"
    /\ UNCHANGED doc

SpecVint == InitVint /\ [][CallVint]_vars

\* the number of zero bits above the first 1 bit of a byte b > 0
LeadingZeros(b) == CHOOSE k \in 0..7 : Pow2(7 - k) <= b /\ b < Pow2(8 - k)

\* the k + 1 bytes of the field
FieldBytes(d) == <<d.first>> \o SubSeq(d.tail, 1, LeadingZeros(d.first))

\* the same bytes, the first one less its marker bit
FieldBytesNoMarker(d) ==
    <<d.first - Pow2(7 - LeadingZeros(d.first))>> \o SubSeq(d.tail, 1, LeadingZeros(d.first))

(***************************************************************************)
(* C21: on a first byte with k leading zero bits, followed by at least k   *)
(* bytes, readEbmlId and readEbmlSize consume k + 1 bytes and report the   *)
(* length k + 1; the ID value is the big-endian value of the k + 1 bytes,  *)
(* the size value that of the same bytes with the marker bit of the first  *)
(* one cleared.  The first byte 0x00 is rejected with an error.            *)
(***************************************************************************)
C21_Case == Done /\ doc.fmt = "vint"

C21_VintLengthAndValue ==
    C21_Case =>
        IF doc.first = 0
        THEN res.err = (IF doc.fn = "id" THEN "invalid EBML ID leading bits"
                        ELSE "invalid EBML size leading bits")
        ELSE doc.keep >= LeadingZeros(doc.first) =>
                /\ res.err = "nil"
                /\ res.val.len = LeadingZeros(doc.first) + 1
                /\ r.pos = LeadingZeros(doc.first) + 1
                /\ r.rd = 0..LeadingZeros(doc.first)
                /\ res.val.u64 = IF doc.fn = "id" THEN Limbs(FieldBytes(doc))
                                 ELSE Limbs(FieldBytesNoMarker(doc))

\* an 8-byte size field: the first byte 0x01 adds nothing to the value
C21_Witness ==
    /\ C21_Case /\ doc.fn = "size" /\ doc.first = 1 /\ doc.keep = MaxTail
    /\ doc.tail[1] = 255
    /\ res.err = "nil" /\ res.val.len = 8 /\ r.pos = 8
    /\ res.val.u64 = [hi |-> 255, mid |-> 16777215, lo |-> 16777215]


(***************************************************************************)
(* Mp4 taken one pass of a loop at a time: pc is the loop the call is in   *)
(* ("file" for the outer  for , "moov" for the inner one), res holds the   *)
(* locals moovEnd and movieTimeScale and, at the end, the returned pair.   *)
(* A pass over a trak child is one step (readAudioDurationInTrak as above).*)
(***************************************************************************)
Frame(loop, rr, moovEnd, movieTimeScale) ==
    [loop |-> loop, val |-> FZero, err |-> "nil", r |-> rr, moovEnd |-> moovEnd,
     movieTimeScale |-> movieTimeScale]

Return(val, err, rr) ==
    [loop |-> "done", val |-> val, err |-> err, r |-> rr, moovEnd |-> 0,
     movieTimeScale |-> 0]

\* one pass of the outer  for  of Mp4
filePass(rr) ==
    With([h \in {readAtomHeader(rr)} |->
    IF h.err # "nil"
    THEN (IF IsEOF(h.err) THEN Return(FZero, "audio mdhd not found", h.r)
          ELSE Return(FZero, h.err, h.r))
    ELSE IF Below(h.size, h.headerLen)
    THEN Return(FZero, "invalid MP4 atom size", h.r)
    ELSE IF h.typ = tagMoov
    THEN Frame("moov", h.r, h.r.pos + (h.size - h.headerLen), 0)
    ELSE With([s \in {skip(h.r, h.size - h.headerLen)} |->
         IF s.err # "nil" THEN Return(FZero, s.err, s.r)
         ELSE Frame("file", s.r, 0, 0)])])

\* one pass of the inner  for  of case "moov"
moovPass(rr, moovEnd, movieTimeScale) ==
    With([h \in {readAtomHeader(rr)} |->
    IF h.err # "nil" THEN Return(FZero, h.err, h.r)
    ELSE IF Below(h.size, h.headerLen)
    THEN Return(FZero, "invalid MP4 child atom size", h.r)
    ELSE With([childEnd \in {h.r.pos + (h.size - h.headerLen)} |->
    With([c \in {moovChild(h.r, h, childEnd, movieTimeScale)} |->
    IF c.kind = "return" THEN Return(c.val, c.err, c.r)
    ELSE With([k \in {SeekStart(c.r, childEnd)} |->
    IF k.err # "nil" THEN Return(FZero, k.err, k.r)
    ELSE IF childEnd >= moovEnd THEN Frame("file", k.r, 0, 0)
    ELSE Frame("moov", k.r, moovEnd, c.ts)])])])])

(***************************************************************************)
(* Streams with a box of extended size 2^64 - back: its content length,    *)
(* int64(size - 16), is -back - 16, and its end lies back bytes before its *)
(* own header.  back = 0 stands for a stream without such a box.  The box  *)
(* ends where the box before it starts ("kid"), where the stream starts    *)
(* ("start") or one byte before the stream ("far").                        *)
(***************************************************************************)
Kid(k) ==
    CASE k = "free" -> Box(tagFree, Zeros(4), FALSE)
      [] k = "mvhd" -> Box(tagMvhd, EncTimes(0, 2, 5), FALSE)
      [] OTHER      -> EncTrak([handler |-> k, ver |-> 0, ts |-> 1, dur |-> 1,
                                edts |-> "none", segs |-> <<>>])

RECURSIVE Kids(_)
Kids(ks) == IF ks = <<>> THEN <<>> ELSE Kid(Head(ks)) \o Kids(Tail(ks))

Wrapped(typ, back) ==
    IF back = 0 THEN <<>>
    ELSE <<0, 0, 0, 1>> \o typ \o <<255, 255, 255, 255, 255>> \o PutBE(16777216 - back, 3)

KidNames == {"free", "mvhd", "vide"}
KidLists == {<<>>} \cup {<<k>> : k \in KidNames} \cup {<<k, l>> : k, l \in KidNames}
WrapTypes == {tagFree, tagMvhd, tagTrak, tagMoov}
Backs == {"none", "kid", "start", "far"}

PassDocs ==
    [fmt : {"mp4"}, before : KidLists, typ : WrapTypes, back : Backs,
     in : {"file", "moov"}, after : {<<>>, <<"soun">>}]

\* where the header of the box of extended size starts
WrapAt(d) == IF d.in = "file" THEN 12 ELSE 20 + Len(Kids(d.before))

BackOf(d) ==
    CASE d.back = "none"  -> 0
      [] d.back = "kid"   -> IF d.in = "file" THEN 12
                             ELSE IF d.before = <<>> THEN 8
                             ELSE Len(Kid(d.before[Len(d.before)]))
      [] d.back = "start" -> WrapAt(d)
      [] d.back = "far"   -> WrapAt(d) + 1

EncPass(d) ==
    Box(tagFtyp, Zeros(4), FALSE)
    \o (IF d.in = "file"
        THEN Wrapped(d.typ, BackOf(d)) \o Box(tagMoov, Kids(d.before \o d.after), FALSE)
        ELSE Box(tagMoov, Kids(d.before) \o Wrapped(d.typ, BackOf(d)) \o Kids(d.after),
                 FALSE))

\* the notes of the reader are dropped between passes: a pass that starts at
\* a position met before starts in the state met before
Plain(rr) == [rr EXCEPT !.rd = {}, !.log = <<>>, !.ops = <<>>]

InitPass ==
    /\ doc \in PassDocs
    /\ r = NewReader(EncPass(doc))
    /\ res = NoResult
    /\ pc = "ready"

Pass(p) ==
    /\ r' = Plain(p.r)
    /\ res' = [val |-> p.val, err |-> p.err, moovEnd |-> p.moovEnd,
               movieTimeScale |-> p.movieTimeScale]
    /\ pc' = p.loop
    /\ UNCHANGED doc

FilePass ==
    /\ pc \in {"ready", "file"}
    /\ Pass(filePass(r))

MoovPass ==
    /\ pc = "moov"
    /\ Pass(moovPass(r, res.moovEnd, res.movieTimeScale))

NextPass == FilePass \/ MoovPass

SpecPass == InitPass /\ [][NextPass]_vars

\* the call runs on: a loop that can take a pass takes it
SpecPassFair == SpecPass /\ WF_vars(FilePass) /\ WF_vars(MoovPass)

\* C22: on every (finite) stream, Mp4 returns after finitely many passes of
\* its loops, whatever sizes the boxes declare
C22_Mp4Returns == <>(pc = "done")


(***************************************************************************)
(* MP4 streams whose edts holds, after its elst, further boxes (tail).     *)
(***************************************************************************)
Tails == {<<>>, Box(tagFree, Zeros(4), FALSE), Box(tagFree, <<>>, TRUE)}

TailDocs ==
    [fmt : {"mp4"}, mts : 0..MaxMTS, tail : Tails,
     trak : {t \in TrakShapes : t.edts # "none" /\ t.ts = 1}]

EncTail(d) ==
    LET mvhd == Box(tagMvhd, EncTimes(d.mts % 2, d.mts, 5), FALSE)
        edts == Box(tagEdts, EncElst(d.trak.ver, d.trak.segs) \o d.tail, FALSE)
        mdia == EncMdia(d.trak)
    IN Box(tagFtyp, Zeros(4), FALSE)
       \o Box(tagMoov,
              mvhd \o Box(tagTrak,
                          Box(tagFree, Zeros(4), FALSE)
                          \o (IF d.trak.edts = "before" THEN edts \o mdia ELSE mdia \o edts),
                          FALSE),
              FALSE)

InitTail ==
    /\ doc \in TailDocs
    /\ r = NewReader(EncTail(doc))
    /\ res = NoResult
    /\ pc = "ready"

SpecTail == InitTail /\ [][NextMp4]_vars

\* headers i and j were decoded by the same scan, j right after i
NextSibling(log, i, j) ==
    /\ i < j
    /\ log[j].scope = log[i].scope
    /\ log[j].endPos = log[i].endPos
    /\ \A k \in (i + 1)..(j - 1) :
           ~(log[k].scope = log[i].scope /\ log[k].endPos = log[i].endPos)

\* C23: in the scopes moov, trak, mdia and edts the header of the next
\* sibling is decoded at the declared end of the child handled before it
C23_SiblingAtChildEnd ==
    \A i, j \in 1..Len(r.log) :
        (r.log[i].scope \in {"moov", "trak", "mdia", "edts"} /\ NextSibling(r.log, i, j))
            => r.log[j].at = r.log[i].childEnd


(***************************************************************************)
(* Duration called twice on the same stream with the same type.            *)
(***************************************************************************)
CallAgain ==
    /\ pc = "done"
    /\ doc.fmt = "file"
    /\ LET c == Duration(r, doc.filetype) IN
        /\ r' = c.r
        /\ res' = [val |-> c.val, err |-> c.err]
    /\ pc' = "again"
    /\ UNCHANGED doc

NextAgain == CallDuration \/ CallAgain

SpecAgain == InitDuration /\ [][NextAgain]_vars

(***************************************************************************)
(* C24: when Duration returns the stream is at offset 0, for every type    *)
(* constant, supported or not, and whether the call succeeded or failed;   *)
(* a second call on the same stream with the same type returns the value   *)
(* and the error of the first.                                             *)
(***************************************************************************)
C24_RewoundAndRepeatable ==
    [][/\ r'.pos = 0
       /\ pc = "done" => res' = res]_vars

\* a second call on a WebM stream that was at offset 5 at first: a duration
C24_Witness ==
    /\ pc = "again" /\ doc.at = 5 /\ doc.filetype = TypeWebM /\ doc.file.fmt = "webm"
    /\ r.pos = 0 /\ res.err = "nil" /\ FPositive(res.val)

=============================================================================
